---- MODULE Spec2Model ----
(***************************************************************************)
(* Nurse Call Response System: the call lifecycle tracker (App component   *)
(* event listeners) and the call audio scheduler (AudioQueue).             *)
(*                                                                         *)
(* Sound names are sequences of one-character strings so that trim() is    *)
(* computed, not assumed.  Time is counted in ticks of MsPerTick ms; a     *)
(* recorded trigger timestamp is the origin 0 of its call, and the          *)
(* Date.now() read by a response is an input: the ticks elapsed since.      *)
(***************************************************************************)
EXTENDS Integers, Sequences, FiniteSets, TLC

\* ---------------------------------------------------------------- bounds
MaxEvents == 3
MaxTime == 1
MaxOps == 2
MaxClock == 5
BurstLen == 4
MaxNotify == 3
MaxDevClock == 4
ClockStart == 4
DayTicks == 2
NoId == 0
UuidBase == 100
NoSec == 0 - 1000
NoDay == 0 - 1

\* ------------------------------------------------------- input alphabets
Codes == {"A", "B"}
PayloadCodes == Codes \cup {""}
PayloadDisplays == {"", "A"}
AllCodes == Codes \cup {""}
MsPerTick == 500

NameA == <<"a">>
NameB == <<" ", "b">>
NameBlank == <<" ">>
NameEmpty == <<>>
FileLists == { <<>>, <<NameBlank>>, <<NameB>>, <<NameA, NameEmpty, NameB>> }

\* ------------------------------------------------------------- variables
VARIABLES
  standbyStatus,          \* 'red' | 'green' | 'blue'
  serialConnectedRef,     \* gate read by the nurse-call listener
  flashTimers,            \* pending setTimeout(() => setStandbyStatus('green'))
  closedCodesRef,
  activeCodesRef,
  triggerTimesRef,        \* code -> recorded Date.now() (the call's origin, 0), or NoTime
  responseSentRef,
  soundBlockNotifiedRef,
  pointerListener,        \* the one-shot pointerdown listener is registered
  fallbackTasks,          \* response continuations awaiting fetch(config.json)
  ctxState,               \* 'none' | 'suspended' | 'running'
  cache,                  \* names with a decoded buffer
  playing,
  stacks,
  drains,                 \* running drain() activations
  nEvents,                \* nurse-call / nurse-call-response events (or queue calls) delivered
  enqueued,               \* history: every stack pushed, in push order
  dropped,                \* history: stacks that were queued when their code was answered
  answeredPlaying,        \* history: [sid, idx] of the file in flight when its code was answered
  playLog,                \* history: every playOne call and pause, in order
  sent,                   \* history: per kind and code, events and side effects counted
  opened,                 \* history: codes with an accepted trigger
  soundful,               \* history: open codes whose trigger carried a non-blank sound name
  lastDur                 \* history: duration of the last response chat message per code

trackerVars == <<standbyStatus, serialConnectedRef, flashTimers, closedCodesRef,
                 activeCodesRef, triggerTimesRef, responseSentRef,
                 soundBlockNotifiedRef, pointerListener, fallbackTasks>>
audioVars == <<ctxState, cache, playing, stacks, drains>>
historyVars == <<enqueued, dropped, answeredPlaying, playLog, sent, opened, soundful, lastDur>>
\* the History store (history_v2.json) and the CallHistory view
VARIABLES
  hFile,                  \* history_v2.json: [exists, calls]
  hClock,                 \* dayjs() now
  uuidCtr,                \* crypto.randomUUID() values handed out
  callHistory,            \* CallHistory view state: the projected records
  nOps,                   \* History operations started
  imported,               \* history: the config rows <<position, row>> imported so far
  persisted,              \* history: ids of the records written to the file so far
  lastOp,                 \* history: the last operation and how it ended
  lostWrite,              \* history: what the last failed write would have stored
  inFlight                \* store operations between their read and their last await

storeVars == <<hFile, hClock, uuidCtr, callHistory, nOps, imported, persisted,
               lastOp, lostWrite, inFlight>>

\* how an operation ended: ran, the store function was called; threw; the
\* caller confirmed it to the user; and lostRead, its read of an existing file
\* fell back to the empty container
OpResult(kind, from, to, reason, ran, threw, confirmed, lostRead) ==
  [kind |-> kind, from |-> from, to |-> to, reason |-> reason, ran |-> ran,
   threw |-> threw, confirmed |-> confirmed, lostRead |-> lostRead]

\* dev mode (lib/devmode): the module's active flag and timer, the timeouts
\* pending in the window, sessionStorage's devmode_until, the clock and the
\* number of notify() calls
VARIABLE devmode

appVars == <<trackerVars, audioVars, nEvents, historyVars, storeVars>>

vars == <<trackerVars, audioVars, nEvents, historyVars, storeVars, devmode>>

NoTime == -1
NoDur == -1
NaNDur == -2

\* ------------------------------------------------------- pure functions
RECURSIVE TrimStart(_)
TrimStart(s) == IF s # <<>> /\ Head(s) = " " THEN TrimStart(Tail(s)) ELSE s

RECURSIVE TrimEnd(_)
TrimEnd(s) == IF s # <<>> /\ s[Len(s)] = " " THEN TrimEnd(SubSeq(s, 1, Len(s) - 1)) ELSE s

Trim(s) == TrimEnd(TrimStart(s))

IsTruthy(s) == s # <<>>

FilterBoolean(fs) == SelectSeq(fs, IsTruthy)

\* fault: the names are filtered without being trimmed
Untrimmed(fs) == FilterBoolean(fs)

Cleaned(fs) == FilterBoolean([i \in 1..Len(fs) |-> Trim(fs[i])])

DeriveCode(pcode, display) == IF pcode # "" THEN pcode ELSE display

MaxOf(a, b) == IF a >= b THEN a ELSE b

\* Math.max(0, Math.round((end - start) / 1000)) for end - start = elapsed ticks
RoundSeconds(elapsed) ==
  MaxOf(0, (elapsed * MsPerTick + 500) \div 1000)

\* the duration computed from the last callHistoryStorage row of the code:
\* no row (or no fetch), a row whose time does not parse, or a row `elapsed` ticks old
DurFromConfig(row) ==
  IF row.kind = "none" THEN NoDur
  ELSE IF row.kind = "invalid" THEN NaNDur
  ELSE RoundSeconds(row.elapsed)

\* counted since the last response event for the code
TrigKinds == {"trigRecv", "stack", "trigNotif", "trigOs", "trigChat"}
\* counted since the last accepted trigger for the code
RespKinds == {"respRecv", "closed", "respNotif", "respOs", "respChat"}

Bump(f, kinds, code) ==
  [k \in DOMAIN f |-> IF k \in kinds THEN [f[k] EXCEPT ![code] = @ + 1] ELSE f[k]]

Reset(f, kinds, code) ==
  [k \in DOMAIN f |-> IF k \in kinds THEN [f[k] EXCEPT ![code] = 0] ELSE f[k]]

\* --------------------------------------------------------- AudioQueue
AQ == [ctx |-> ctxState, cache |-> cache, playing |-> playing,
       stacks |-> stacks, drains |-> drains, log |-> playLog, enq |-> enqueued]

PauseMark == [sid |-> 0, idx |-> 0, name |-> <<>>]

\* playOne up to its first await
PlayOneBegin(q, name) ==
  IF q.ctx = "none" THEN "sleep200"
  ELSE IF name \in q.cache THEN "source"
  ELSE "fetch"

\* fault: the drain takes the newest stack
PopStack(ss) == [head |-> ss[Len(ss)], rest |-> SubSeq(ss, 1, Len(ss) - 1)]

\* this.stacks.shift()
ShiftStack(ss) == [head |-> Head(ss), rest |-> Tail(ss)]

\* top of the while loop for activation i (i = Len(drains) + 1 starts a new one)
DrainLoop(q, i) ==
  IF q.stacks # <<>>
  THEN LET sh == ShiftStack(q.stacks)
           st == sh.head
           d == [sid |-> st.sid, code |-> st.code, files |-> st.files, idx |-> 1,
                 pc |-> PlayOneBegin(q, st.files[1])]
       IN [q EXCEPT !.stacks = sh.rest,
                    !.drains = IF i > Len(q.drains) THEN Append(q.drains, d)
                               ELSE [q.drains EXCEPT ![i] = d],
                    !.log = Append(q.log, [sid |-> st.sid, idx |-> 1, name |-> st.files[1]])]
  ELSE [q EXCEPT !.playing = FALSE,
                 !.drains = SubSeq(q.drains, 1, i - 1) \o SubSeq(q.drains, i + 1, Len(q.drains))]

\* fault: the draining flag is never raised
LeavePlaying(q) == q

\* this.playing = true
MarkPlaying(q) == [q EXCEPT !.playing = TRUE]

Drain(q) ==
  IF q.playing THEN q
  ELSE DrainLoop(MarkPlaying(q), Len(q.drains) + 1)

\* fault: the push never starts the drain
PushOnly(q, files, code) ==
  LET cleaned == Cleaned(files) IN
  IF cleaned = <<>> THEN q
  ELSE [q EXCEPT !.stacks = Append(@, [sid |-> Len(q.enq) + 1, code |-> code,
                                       files |-> cleaned]),
                 !.enq = Append(@, [code |-> code, files |-> cleaned])]

\* the pushed stack is numbered by its position in the push history
EnqueueStack(q, files, code) ==
  LET cleaned == Cleaned(files) IN
  IF cleaned = <<>> THEN q
  ELSE LET st == [sid |-> Len(q.enq) + 1, code |-> code, files |-> cleaned]
           q1 == [q EXCEPT !.stacks = Append(@, st),
                           !.enq = Append(@, [code |-> code, files |-> cleaned])]
       IN IF ~q1.playing THEN Drain(q1) ELSE q1

\* fault: the filter keeps every stack
KeepsAll(s, code) == TRUE

\* fault: the filter also removes the stacks pushed with an empty code
KeepsCoded(s, code) == s.code # code /\ s.code # ""

KeepsStack(s, code) == s.code # code

\* fault: the stack in flight loses its files that have not started
DropInFlight(q, code) ==
  [q EXCEPT !.stacks = SelectSeq(q.stacks, LAMBDA s: KeepsStack(s, code)),
            !.drains = [i \in 1..Len(q.drains) |->
                          IF q.drains[i].code = code
                          THEN [q.drains[i] EXCEPT !.files = SubSeq(@, 1, q.drains[i].idx)]
                          ELSE q.drains[i]]]

\* fault: dropping also lowers the draining flag
DropAndStop(q, code) ==
  [q EXCEPT !.stacks = SelectSeq(q.stacks, LAMBDA s: KeepsStack(s, code)),
            !.playing = FALSE]

DropByCode(q, code) ==
  [q EXCEPT !.stacks = SelectSeq(q.stacks, LAMBDA s: KeepsStack(s, code))]

\* fault: kick starts a drain loop whether or not one is running
KickAnyway(q) ==
  IF q.stacks # <<>> THEN DrainLoop(MarkPlaying(q), Len(q.drains) + 1) ELSE q

Kick(q) == IF ~q.playing /\ q.stacks # <<>> THEN Drain(q) ELSE q

\* fault: the next stack is taken without the inter-call pause
ContinueAtOnce(q, i) ==
  LET d == q.drains[i] IN
  IF d.idx < Len(d.files)
  THEN LET n == d.files[d.idx + 1] IN
       [q EXCEPT !.drains[i].idx = d.idx + 1,
                 !.drains[i].pc = PlayOneBegin(q, n),
                 !.log = Append(q.log, [sid |-> d.sid, idx |-> d.idx + 1, name |-> n])]
  ELSE DrainLoop(q, i)

\* the awaited playOne of activation i resolved: rest of the for loop, then line 77
FileDone(q, i) ==
  LET d == q.drains[i] IN
  IF d.idx < Len(d.files)
  THEN LET n == d.files[d.idx + 1] IN
       [q EXCEPT !.drains[i].idx = d.idx + 1,
                 !.drains[i].pc = PlayOneBegin(q, n),
                 !.log = Append(q.log, [sid |-> d.sid, idx |-> d.idx + 1, name |-> n])]
  ELSE IF q.stacks # <<>>
       THEN [q EXCEPT !.drains[i].pc = "pause", !.log = Append(q.log, PauseMark)]
       ELSE DrainLoop(q, i)

\* how a started buffer source can resolve the playOne promise
SourceResolvers(ctx) ==
  {"timeout"} \cup (IF ctx = "running" THEN {"ended"} ELSE {})

\* ensureUnlocked: the outcomes [ok, ctx'] it can have
EnsureUnlocked(ctx) ==
  IF ctx = "none" THEN {[ok |-> FALSE, ctx |-> "none"]}
  ELSE IF ctx = "running" THEN {[ok |-> TRUE, ctx |-> "running"]}
  ELSE {[ok |-> TRUE, ctx |-> "running"], [ok |-> FALSE, ctx |-> "suspended"]}


\* ------------------------------------------------------------ tracker
\* fault: the gate lets every trigger through
GateOpen(connected) == FALSE

\* if (!serialConnectedRef.current) return
GateClosed(connected) == ~connected

AlreadyEnclosed(code, closed) == code # "" /\ code \in closed

\* fault: no de-duplication of triggers for an active code
AlwaysAccepts(code, active) == FALSE

AlreadyActive(code, active) == code # "" /\ code \in active

\* fault: no de-duplication of responses
NeverSentBefore(code, sentSet) == FALSE

\* fault: a response without a code counts as already answered
SentOrNoCode(code, sentSet) == code = "" \/ code \in sentSet

ResponseAlreadySent(code, sentSet) == code # "" /\ code \in sentSet

EnqueueSounds(q, code, files) ==
  LET cleaned == Cleaned(files) IN
  IF cleaned = <<>> THEN q ELSE Kick(EnqueueStack(q, cleaned, code))

\* a sound name with a character other than a space
HasPlayableName(files) ==
  \E i \in 1..Len(files) : \E j \in 1..Len(files[i]) : files[i][j] # " "

\* the stacks waiting in the queue, and the files in flight, for a code
QueuedFor(code) == {stacks[k].sid : k \in {j \in 1..Len(stacks) : stacks[j].code = code}}

PlayingFor(code) ==
  {[sid |-> drains[k].sid, idx |-> drains[k].idx] :
     k \in {j \in 1..Len(drains) : drains[j].code = code}}

UI == [notified |-> soundBlockNotifiedRef, listener |-> pointerListener]

\* the async block of the trigger handler once ensureUnlocked() has answered ok
PromptOrKick(ok, q, u) ==
  IF ~ok /\ ~u.notified
  THEN [q |-> q, notified |-> TRUE, listener |-> TRUE]
  ELSE [q |-> Kick(q), notified |-> u.notified, listener |-> u.listener]

SetAudio(q) ==
  /\ ctxState' = q.ctx
  /\ cache' = q.cache
  /\ playing' = q.playing
  /\ stacks' = q.stacks
  /\ drains' = q.drains
  /\ playLog' = q.log
  /\ enqueued' = q.enq

\* ----------------------------------------------------------------- dev mode
\* let timer: number | null = null; parseInt of a missing devmode_until is 0;
\* Date.now() is a positive number of ticks
NoTimer == 0
NoUntil == 0
DevClockStart == 1

\* devmode.enable(3 * 60 * 1000), in ticks
DevPeriod == 2

\* the module as evaluated on page load, before loadFromSession()
FreshModule(until, now, notified) ==
  [active |-> FALSE, timer |-> NoTimer, timeouts |-> {}, ids |-> 0,
   until |-> until, now |-> now, notified |-> notified]

\* if (timer) window.clearTimeout(timer)
ClearTimeout(dm) ==
  IF dm.timer # NoTimer
  THEN [dm EXCEPT !.timeouts = {t \in @ : t.id # dm.timer}]
  ELSE dm

\* timer = window.setTimeout(() => { disable(); }, ms)
SetTimeout(dm, ms) ==
  [dm EXCEPT !.ids = @ + 1,
             !.timer = dm.ids + 1,
             !.timeouts = @ \cup {[id |-> dm.ids + 1, due |-> dm.now + ms]}]

\* listeners.forEach((l) => l())
Notify(dm) == [dm EXCEPT !.notified = @ + 1]

LoadFromSession(dm) ==
  IF dm.until > dm.now
  THEN SetTimeout(ClearTimeout([dm EXCEPT !.active = TRUE]), dm.until - dm.now)
  ELSE [dm EXCEPT !.until = NoUntil]

\* fault: enable leaves the running timer in place
EnableStacking(dm, ms, stored) ==
  Notify(SetTimeout([dm EXCEPT !.active = TRUE,
                               !.until = IF stored THEN dm.now + ms ELSE @], ms))

\* enable(ms); stored: sessionStorage.setItem went through
Enable(dm, ms, stored) ==
  Notify(SetTimeout(ClearTimeout([dm EXCEPT !.active = TRUE,
                                            !.until = IF stored THEN dm.now + ms ELSE @]),
                    ms))

\* disable(); removed: sessionStorage.removeItem went through
Disable(dm, removed) ==
  Notify([ClearTimeout([dm EXCEPT !.active = FALSE,
                                  !.until = IF removed THEN NoUntil ELSE @])
            EXCEPT !.timer = NoTimer])

Init ==
  /\ standbyStatus = "red"
  /\ serialConnectedRef = FALSE
  /\ flashTimers = 0
  /\ closedCodesRef = {}
  /\ activeCodesRef = {}
  /\ triggerTimesRef = [c \in AllCodes |-> NoTime]
  /\ responseSentRef = {}
  /\ soundBlockNotifiedRef = FALSE
  /\ pointerListener = FALSE
  /\ fallbackTasks = <<>>
  /\ ctxState \in {"none", "suspended", "running"}
  /\ cache = {}
  /\ playing = FALSE
  /\ stacks = <<>>
  /\ drains = <<>>
  /\ nEvents = 0
  /\ enqueued = <<>>
  /\ dropped = {}
  /\ answeredPlaying = {}
  /\ soundful = {}
  /\ playLog = <<>>
  /\ sent = [k \in TrigKinds \cup RespKinds |-> [c \in AllCodes |-> 0]]
  /\ opened = {}
  /\ lastDur = [c \in AllCodes |-> NoDur]
  /\ hFile = [exists |-> FALSE, calls |-> <<>>]
  /\ hClock = ClockStart
  /\ uuidCtr = 0
  /\ callHistory = <<>>
  /\ nOps = 0
  /\ imported = {}
  /\ persisted = {}
  /\ lastOp = OpResult("none", NoDay, NoDay, "", FALSE, FALSE, FALSE, FALSE)
  /\ lostWrite = <<>>
  /\ inFlight = <<>>
  /\ devmode = LoadFromSession(FreshModule(NoUntil, DevClockStart, 0))

\* how the deliveries of a handler end: all made; notifications.show throws;
\* osNotify throws (caught); sendTelegram resolves to false
Deliveries == {"ok", "banner", "os", "chat"}

\* listen('nurse-call') handler; res is the answer of the ensureUnlocked() call
\* its async block awaits, fail the way its deliveries end
NurseCallWith(pcode, display, files, res, fail) ==
  LET code == DeriveCode(pcode, display)
      fs == FilterBoolean(files)
      q1 == EnqueueSounds(AQ, code, fs)
      r == PromptOrKick(res.ok, [q1 EXCEPT !.ctx = res.ctx], UI)
  IN
  /\ nEvents < MaxEvents
  /\ nEvents' = nEvents + 1
  /\ res \in EnsureUnlocked(ctxState)
  /\ UNCHANGED <<closedCodesRef, fallbackTasks, serialConnectedRef>>
  /\ IF GateClosed(serialConnectedRef)
     THEN UNCHANGED <<standbyStatus, flashTimers, activeCodesRef, triggerTimesRef,
                      responseSentRef, soundBlockNotifiedRef, pointerListener,
                      audioVars, historyVars>>
     ELSE IF AlreadyEnclosed(code, closedCodesRef) \/ AlreadyActive(code, activeCodesRef)
     THEN /\ sent' = Bump(sent, {"trigRecv"}, code)
          /\ UNCHANGED <<standbyStatus, flashTimers, activeCodesRef, triggerTimesRef,
                         responseSentRef, soundBlockNotifiedRef, pointerListener,
                         audioVars, enqueued, dropped, answeredPlaying, playLog,
                         opened, soundful, lastDur>>
     ELSE /\ activeCodesRef' = IF code # "" THEN activeCodesRef \cup {code} ELSE activeCodesRef
          /\ responseSentRef' = responseSentRef \ {code}
          /\ triggerTimesRef' = IF code # "" THEN [triggerTimesRef EXCEPT ![code] = 0]
                                ELSE triggerTimesRef
          /\ SetAudio(r.q)
          /\ soundBlockNotifiedRef' = r.notified
          /\ pointerListener' = r.listener
          /\ standbyStatus' = "blue"
          /\ flashTimers' = flashTimers + 1
          /\ sent' = Bump(Reset(sent, RespKinds, code),
                          {"trigRecv"}
                            \cup (IF fail = "banner" THEN {}
                                  ELSE {"trigNotif", "trigOs", "trigChat"})
                            \cup (IF Len(r.q.enq) > Len(enqueued) THEN {"stack"} ELSE {}),
                          code)
          /\ opened' = opened \cup {code}
          /\ soundful' = IF HasPlayableName(files) THEN soundful \cup {code}
                         ELSE soundful \ {code}
          /\ UNCHANGED <<dropped, answeredPlaying>>
          /\ lastDur' = [lastDur EXCEPT ![code] = NoDur]

\* the handler with every delivery made
NurseCall(pcode, display, files, res) == NurseCallWith(pcode, display, files, res, "ok")

\* the one-shot pointerdown listener onAny
PointerDown(res) ==
  /\ pointerListener
  /\ res \in EnsureUnlocked(ctxState)
  /\ pointerListener' = FALSE
  /\ IF res.ok
     THEN /\ SetAudio(Kick([AQ EXCEPT !.ctx = res.ctx]))
          /\ soundBlockNotifiedRef' = FALSE
     ELSE /\ SetAudio([AQ EXCEPT !.ctx = res.ctx])
          /\ UNCHANGED soundBlockNotifiedRef
  /\ UNCHANGED <<standbyStatus, serialConnectedRef, flashTimers, closedCodesRef,
                 activeCodesRef, triggerTimesRef, responseSentRef,
                 fallbackTasks, nEvents, dropped, answeredPlaying, sent, opened,
                 soundful, lastDur>>

\* listen('nurse-call-response') handler, with its async block up to the first
\* await; elapsed is Date.now() - startedAtMs in ticks, fail the way its
\* deliveries end
NurseCallResponseWith(pcode, elapsed, fail) ==
  LET code == pcode
      startedAtMs == IF code # "" THEN triggerTimesRef[code] ELSE NoTime
      q1 == IF code # "" THEN DropByCode(AQ, code) ELSE AQ
      base == Reset(sent, TrigKinds, code)
      closes == IF code # "" THEN {"closed"} ELSE {}
  IN
  /\ nEvents < MaxEvents
  /\ nEvents' = nEvents + 1
  /\ UNCHANGED <<standbyStatus, serialConnectedRef, flashTimers,
                 soundBlockNotifiedRef, pointerListener, opened>>
  /\ soundful' = soundful \ {code}
  /\ IF ResponseAlreadySent(code, responseSentRef)
     THEN /\ sent' = Bump(base, {"respRecv"}, code)
          /\ UNCHANGED <<closedCodesRef, activeCodesRef, triggerTimesRef,
                         responseSentRef, fallbackTasks, audioVars, enqueued, dropped,
                         answeredPlaying, playLog, lastDur>>
     ELSE /\ closedCodesRef' = IF code # "" THEN closedCodesRef \cup {code} ELSE closedCodesRef
          /\ activeCodesRef' = activeCodesRef \ {code}
          /\ SetAudio(q1)
          /\ dropped' = IF code # "" THEN dropped \cup QueuedFor(code) ELSE dropped
          /\ answeredPlaying' = IF code # "" THEN answeredPlaying \cup PlayingFor(code)
                                ELSE answeredPlaying
          /\ IF fail = "banner"
             THEN /\ sent' = Bump(base, {"respRecv"} \cup closes, code)
                  /\ UNCHANGED <<responseSentRef, triggerTimesRef, lastDur, fallbackTasks>>
             ELSE /\ responseSentRef' = IF code # "" THEN responseSentRef \cup {code}
                                     ELSE responseSentRef
                  /\ IF startedAtMs # NoTime
                     THEN /\ triggerTimesRef' = [triggerTimesRef EXCEPT ![code] = NoTime]
                          /\ lastDur' = [lastDur EXCEPT
                                           ![code] = RoundSeconds(elapsed - startedAtMs)]
                          /\ sent' = Bump(base,
                                          {"respRecv", "respNotif", "respOs", "respChat"}
                                            \cup closes, code)
                          /\ UNCHANGED fallbackTasks
                     ELSE /\ fallbackTasks' = Append(fallbackTasks, code)
                          /\ sent' = Bump(base, {"respRecv", "respNotif", "respOs"}
                                                  \cup closes, code)
                          /\ UNCHANGED <<triggerTimesRef, lastDur>>

\* the handler with every delivery made
NurseCallResponse(pcode, elapsed) == NurseCallResponseWith(pcode, elapsed, "ok")

\* the response continuation after fetch('/config.json')
ConfigFetched(i, row) ==
  /\ i \in 1..Len(fallbackTasks)
  /\ lastDur' = [lastDur EXCEPT ![fallbackTasks[i]] = DurFromConfig(row)]
  /\ sent' = Bump(sent, {"respChat"}, fallbackTasks[i])
  /\ fallbackTasks' = SubSeq(fallbackTasks, 1, i - 1)
                        \o SubSeq(fallbackTasks, i + 1, Len(fallbackTasks))
  /\ UNCHANGED <<standbyStatus, serialConnectedRef, flashTimers, closedCodesRef,
                 activeCodesRef, triggerTimesRef, responseSentRef,
                 soundBlockNotifiedRef, pointerListener, audioVars, nEvents,
                 enqueued, dropped, answeredPlaying, playLog, opened, soundful>>

SerialConnected ==
  /\ standbyStatus' = "blue"
  /\ UNCHANGED <<serialConnectedRef, flashTimers, closedCodesRef, activeCodesRef,
                 triggerTimesRef, responseSentRef, soundBlockNotifiedRef,
                 pointerListener, fallbackTasks, audioVars, nEvents, historyVars>>

SerialDisconnected ==
  /\ standbyStatus' = "red"
  /\ UNCHANGED <<serialConnectedRef, flashTimers, closedCodesRef, activeCodesRef,
                 triggerTimesRef, responseSentRef, soundBlockNotifiedRef,
                 pointerListener, fallbackTasks, audioVars, nEvents, historyVars>>

\* setTimeout(() => setStandbyStatus('green'), 1000) fires
FlashTimer ==
  /\ flashTimers > 0
  /\ flashTimers' = flashTimers - 1
  /\ standbyStatus' = "green"
  /\ UNCHANGED <<serialConnectedRef, closedCodesRef, activeCodesRef,
                 triggerTimesRef, responseSentRef, soundBlockNotifiedRef,
                 pointerListener, fallbackTasks, audioVars, nEvents, historyVars>>

\* useEffect(..., [standbyStatus]) after the render that follows a status change
SyncConnectedEffect ==
  /\ serialConnectedRef # (standbyStatus # "red")
  /\ serialConnectedRef' = (standbyStatus # "red")
  /\ UNCHANGED <<standbyStatus, flashTimers, closedCodesRef, activeCodesRef,
                 triggerTimesRef, responseSentRef, soundBlockNotifiedRef,
                 pointerListener, fallbackTasks, audioVars, nEvents, historyVars>>

\* ------------------------------------------------ drain continuations
\* fetchDecode settled for activation i: a buffer (ok) or null / a rejection
FetchDone(i, ok) ==
  /\ i \in 1..Len(drains)
  /\ drains[i].pc = "fetch"
  /\ LET d == drains[i]
         n == d.files[d.idx]
     IN IF ok
        THEN /\ cache' = cache \cup {n}
             /\ drains' = [drains EXCEPT ![i].pc = "source"]
        ELSE /\ drains' = [drains EXCEPT ![i].pc = "sleep50"]
             /\ UNCHANGED cache
  /\ UNCHANGED <<trackerVars, ctxState, playing, stacks, nEvents, historyVars>>

\* sleep(200) or sleep(50) of playOne elapsed
SleepDone(i) ==
  /\ i \in 1..Len(drains)
  /\ drains[i].pc \in {"sleep200", "sleep50"}
  /\ SetAudio(FileDone(AQ, i))
  /\ UNCHANGED <<trackerVars, nEvents, dropped, answeredPlaying, sent, opened,
                 soundful, lastDur>>

\* onended or the safety timeout called done()
SourceDone(i, how) ==
  /\ i \in 1..Len(drains)
  /\ drains[i].pc = "source"
  /\ how \in SourceResolvers(ctxState)
  /\ SetAudio(FileDone(AQ, i))
  /\ UNCHANGED <<trackerVars, nEvents, dropped, answeredPlaying, sent, opened,
                 soundful, lastDur>>

\* sleep(3500) between two stacks elapsed
PauseDone(i) ==
  /\ i \in 1..Len(drains)
  /\ drains[i].pc = "pause"
  /\ SetAudio(DrainLoop(AQ, i))
  /\ UNCHANGED <<trackerVars, nEvents, dropped, answeredPlaying, sent, opened,
                 soundful, lastDur>>

\* ------------------------------------- AudioQueue driven through its API
\* audioQueue.enqueueStack(files, code)
EnqueueStackCall(files, code) ==
  /\ nEvents < MaxEvents
  /\ nEvents' = nEvents + 1
  /\ SetAudio(EnqueueStack(AQ, files, code))
  /\ UNCHANGED <<trackerVars, dropped, answeredPlaying, sent, opened, soundful, lastDur>>

\* audioQueue.dropByCode(code)
DropByCodeCall(code) ==
  /\ nEvents < MaxEvents
  /\ nEvents' = nEvents + 1
  /\ SetAudio(DropByCode(AQ, code))
  /\ dropped' = dropped \cup QueuedFor(code)
  /\ answeredPlaying' = answeredPlaying \cup PlayingFor(code)
  /\ UNCHANGED <<trackerVars, sent, opened, soundful, lastDur>>

\* audioQueue.kick()
KickCall ==
  /\ SetAudio(Kick(AQ))
  /\ UNCHANGED <<trackerVars, nEvents, dropped, answeredPlaying, sent, opened,
                 soundful, lastDur>>

\* audioQueue.ensureUnlocked() answered res
EnsureUnlockedCall(res) ==
  /\ res \in EnsureUnlocked(ctxState)
  /\ SetAudio([AQ EXCEPT !.ctx = res.ctx])
  /\ UNCHANGED <<trackerVars, nEvents, dropped, answeredPlaying, sent, opened,
                 soundful, lastDur>>

\* ============================================================ History store
\* Timestamps are ticks of MsPerTick ms; '' and undefined are NoTime.  A day has
\* DayTicks ticks.  A legacy id is a number: row ids from 1, a
\* crypto.randomUUID() is UuidBase plus a fresh counter value.

HistCodes == {"A"}
LegacyTimes == {NoTime, 2}
ResponseTimes == {NoTime, 3}
RowIds == {NoId, 1}
Statuses == {"active", "completed"}

\* a row of config.json callHistoryStorage
RawRows ==
  [id : RowIds, code : HistCodes, room : {"R"}, bed : {"1"},
   timestamp : LegacyTimes, resetTime : ResponseTimes, status : Statuses]

RawBatches == {<<>>} \cup {<<x>> : x \in RawRows} \cup {<<x, x>> : x \in RawRows}

\* the rows before position i that get a random id
RandomBefore(arr, i) == Cardinality({j \in 1..(i - 1) : arr[j].id = NoId})

\* mapConfigToRecords, with the next unused random id
MapConfigToRecords(arr, ctr) ==
  [i \in 1..Len(arr) |->
     [id |-> IF arr[i].id # NoId THEN arr[i].id
             ELSE UuidBase + ctr + RandomBefore(arr, i) + 1,
      code |-> arr[i].code,
      roomName |-> arr[i].room,
      bedName |-> arr[i].bed,
      callTime |-> arr[i].timestamp,
      responseTime |-> arr[i].resetTime,
      status |-> IF arr[i].status = "active" THEN "active" ELSE "completed"]]

\* the text of a code, a sequence of characters: a code written without '-' is
\* taken as one character, DashedCode has a '-' inside
DashedCode == "A-2"

CodeChars(c) ==
  IF c = "" THEN <<>>
  ELSE IF c = DashedCode THEN <<"A", "-", "2">>
  ELSE <<c>>

\* the text of a time stamp and of a legacy id, String(x.id); the legacy id
\* DashedId has a '-' inside, like a UUID
DashedId == 21

TimeChars(t) == IF t = NoTime THEN <<>> ELSE <<ToString(t)>>

IdChars(i) == IF i = DashedId THEN <<"2", "-", "1">> ELSE <<ToString(i)>>

\* `${r.code || 'code'}-${r.callTime || r.id}`
DeriveId(r) ==
  (IF CodeChars(r.code) # <<>> THEN CodeChars(r.code) ELSE <<"code">>)
    \o <<"-">>
    \o (IF TimeChars(r.callTime) # <<>> THEN TimeChars(r.callTime) ELSE IdChars(r.id))

\* dayjs(b).diff(dayjs(a), 'second'): truncated towards zero
DiffSeconds(b, a) ==
  LET ms == (b - a) * MsPerTick
  IN IF ms >= 0 THEN ms \div 1000 ELSE 0 - ((0 - ms) \div 1000)

\* the CallRecordV2 built from a legacy record at time now
NextRecord(r, now) ==
  LET startedAt == IF r.callTime # NoTime THEN r.callTime ELSE now
      endedAt == r.responseTime
  IN [id |-> DeriveId(r),
      code |-> r.code,
      room |-> r.roomName,
      bed |-> r.bedName,
      startedAt |-> startedAt,
      endedAt |-> endedAt,
      status |-> IF r.status = "completed" \/ endedAt # NoTime THEN "completed" ELSE "active",
      durationSec |-> IF endedAt # NoTime THEN DiffSeconds(endedAt, startedAt) ELSE NoSec,
      deletedAt |-> NoTime,
      deletedReason |-> ""]

\* the merge branch: end info is taken only when the stored record has none
MergeRecord(prev, next) ==
  IF prev.endedAt = NoTime /\ next.endedAt # NoTime
  THEN [prev EXCEPT !.endedAt = next.endedAt,
                    !.status = "completed",
                    !.durationSec = next.durationSec]
  ELSE prev

IndexOfId(calls, id) ==
  IF \E k \in 1..Len(calls) : calls[k].id = id
  THEN CHOOSE k \in 1..Len(calls) : calls[k].id = id
  ELSE 0

\* byId.set(id, ...) for one record
UpsertOne(calls, r, now) ==
  LET next == NextRecord(r, now)
      k == IndexOfId(calls, next.id)
  IN IF k = 0 THEN Append(calls, next)
     ELSE [calls EXCEPT ![k] = MergeRecord(calls[k], next)]

RECURSIVE UpsertAll(_, _, _)
UpsertAll(calls, records, now) ==
  IF records = <<>> THEN calls
  ELSE UpsertAll(UpsertOne(calls, Head(records), now), Tail(records), now)

\* readHistoryV2: any failure of mkdir, readTextFile or JSON.parse gives the
\* empty container
ReadHistoryV2(file, ioOk) == IF file.exists /\ ioOk THEN file.calls ELSE <<>>

\* writeHistoryV2: the file after the call
WriteHistoryV2(file, calls, ioOk) ==
  IF ioOk THEN [exists |-> TRUE, calls |-> calls] ELSE file

StartOfDay(d) == d * DayTicks

EndOfDay(d) == d * DayTicks + DayTicks - 1

\* inFrom && inTo; every comparison with an invalid date (t = NoTime) is false
InRange(t, start, end) ==
  /\ (start # NoDay => (t # NoTime /\ t >= StartOfDay(start)))
  /\ (end # NoDay => (t # NoTime /\ t <= EndOfDay(end)))

\* the map callback of softDeleteRange
MarkDeleted(c, start, end, now, reason) ==
  IF InRange(c.startedAt, start, end) /\ c.deletedAt = NoTime
  THEN [c EXCEPT !.deletedAt = now, !.deletedReason = reason]
  ELSE c

\* loadFromConfig: the records shown, soft-deleted ones left out
Projection(calls) ==
  LET live == SelectSeq(calls, LAMBDA c : c.deletedAt = NoTime)
  IN [i \in 1..Len(live) |->
        [id |-> live[i].id, code |-> live[i].code, roomName |-> live[i].room,
         bedName |-> live[i].bed, callTime |-> live[i].startedAt,
         responseTime |-> live[i].endedAt,
         status |-> IF live[i].status = "completed" THEN "completed" ELSE "active"]]

IdsOf(calls) == {calls[k].id : k \in 1..Len(calls)}

\* upsertFromLegacy: [file, out, threw]
UpsertFromLegacy(file, records, now, readOk, writeOk) ==
  LET out == UpsertAll(ReadHistoryV2(file, readOk), records, now)
  IN [file |-> WriteHistoryV2(file, out, writeOk), out |-> out, threw |-> ~writeOk]

\* softDeleteRange: [file, out, threw]
SoftDeleteRange(file, start, end, reason, now, readOk, writeOk) ==
  LET data == ReadHistoryV2(file, readOk)
      out == [k \in 1..Len(data) |-> MarkDeleted(data[k], start, end, now, reason)]
  IN [file |-> WriteHistoryV2(file, out, writeOk), out |-> out, threw |-> ~writeOk]

\* the legacy id as shown before the V2 projection replaces it
ViewOfMapped(mapped) ==
  [i \in 1..Len(mapped) |-> [mapped[i] EXCEPT !.id = IdChars(mapped[i].id)]]

\* bookkeeping of a write attempt
Wrote(res) ==
  /\ persisted' = IF res.threw THEN persisted ELSE persisted \cup IdsOf(res.out)
  /\ lostWrite' = IF res.threw THEN res.out ELSE <<>>

\* loadFromConfig, the initial and 5-second periodic sync
LoadFromConfig(arr, fetchOk, readOk, writeOk, readAgainOk) ==
  LET mapped == MapConfigToRecords(arr, uuidCtr)
      res == UpsertFromLegacy(hFile, mapped, hClock, readOk, writeOk)
  IN
  /\ nOps < MaxOps
  /\ nOps' = nOps + 1
  /\ UNCHANGED <<hClock, inFlight>>
  /\ IF ~fetchOk
     THEN /\ lastOp' = OpResult("sync", NoDay, NoDay, "", FALSE, FALSE, FALSE, FALSE)
          /\ UNCHANGED <<hFile, uuidCtr, callHistory, imported, persisted, lostWrite>>
     ELSE /\ uuidCtr' = uuidCtr + RandomBefore(arr, Len(arr) + 1)
          /\ imported' = imported \cup {<<i, arr[i]>> : i \in 1..Len(arr)}
          /\ hFile' = res.file
          /\ Wrote(res)
          /\ callHistory' = IF res.threw THEN ViewOfMapped(mapped)
                            ELSE Projection(ReadHistoryV2(res.file, readAgainOk))
          /\ lastOp' = OpResult("sync", NoDay, NoDay, "", TRUE, res.threw, FALSE,
                                hFile.exists /\ ~readOk)

\* softDeleteRange called on its own
SoftDeleteRangeCall(start, end, reason, readOk, writeOk) ==
  LET res == SoftDeleteRange(hFile, start, end, reason, hClock, readOk, writeOk)
  IN
  /\ nOps < MaxOps
  /\ nOps' = nOps + 1
  /\ hFile' = res.file
  /\ Wrote(res)
  /\ lastOp' = OpResult("softDelete", start, end, reason, TRUE, res.threw, FALSE,
                        hFile.exists /\ ~readOk)
  /\ UNCHANGED <<hClock, uuidCtr, callHistory, imported, inFlight>>

\* clearHistory with the filter dates from and to; cfgOk: write_public_config
\* went through
ClearHistory(from, to, cfgOk, readOk, writeOk) ==
  LET res == SoftDeleteRange(hFile, from, to, "range-clear", hClock, readOk, writeOk)
  IN
  /\ nOps < MaxOps
  /\ nOps' = nOps + 1
  /\ callHistory' = SelectSeq(callHistory, LAMBDA r : ~InRange(r.callTime, from, to))
  /\ UNCHANGED <<hClock, uuidCtr, imported, inFlight>>
  /\ IF cfgOk
     THEN /\ hFile' = res.file
          /\ Wrote(res)
          /\ lastOp' = OpResult("clear", from, to, "range-clear", TRUE, res.threw, TRUE,
                                hFile.exists /\ ~readOk)
     ELSE /\ lastOp' = OpResult("clear", from, to, "range-clear", FALSE, FALSE, FALSE, FALSE)
          /\ UNCHANGED <<hFile, persisted, lostWrite>>

\* time passes
ClockTick ==
  /\ hClock < MaxClock
  /\ hClock' = hClock + 1
  /\ UNCHANGED <<hFile, uuidCtr, callHistory, nOps, imported, persisted, lastOp,
                 lostWrite, inFlight>>

Days == {NoDay} \cup 0..(MaxClock \div DayTicks)
Reasons == {"range-clear", "manual"}

HistoryNext ==
  \/ \E arr \in RawBatches, f, r, w, r2 \in BOOLEAN :
       LoadFromConfig(arr, f, r, w, r2) /\ UNCHANGED <<trackerVars, audioVars, nEvents, historyVars, devmode>>
  \/ \E a, b \in Days, rs \in Reasons, r, w \in BOOLEAN :
       SoftDeleteRangeCall(a, b, rs, r, w) /\ UNCHANGED <<trackerVars, audioVars, nEvents, historyVars, devmode>>
  \/ \E a, b \in Days, c, r, w \in BOOLEAN :
       ClearHistory(a, b, c, r, w) /\ UNCHANGED <<trackerVars, audioVars, nEvents, historyVars, devmode>>
  \/ ClockTick /\ UNCHANGED <<trackerVars, audioVars, nEvents, historyVars, devmode>>

\* the store is used with the audio context in any one state
HistoryInit == Init /\ ctxState = "running"

HistorySpec == HistoryInit /\ [][HistoryNext]_vars

\* records written by another version of the program: they carry notes, a
\* field of CallRecordV2 that this store never sets
ForeignRecords ==
  {[id |-> <<"A", "-", "2">>, code |-> "A", room |-> "R", bed |-> "1",
    startedAt |-> 2, endedAt |-> e, status |-> IF e = NoTime THEN "active" ELSE "completed",
    durationSec |-> IF e = NoTime THEN NoSec ELSE DiffSeconds(e, 2),
    deletedAt |-> NoTime, deletedReason |-> "", notes |-> "n"] : e \in ResponseTimes}

\* history_v2.json as an earlier run left it
FileFromEarlierRun(rec) ==
  /\ nOps = 0
  /\ ~hFile.exists
  /\ hFile' = [exists |-> TRUE, calls |-> <<rec>>]
  /\ persisted' = {rec.id}
  /\ UNCHANGED <<hClock, uuidCtr, callHistory, nOps, imported, lastOp, lostWrite,
                 inFlight>>

UpgradeNext ==
  \/ \E rec \in ForeignRecords :
       FileFromEarlierRun(rec) /\ UNCHANGED <<trackerVars, audioVars, nEvents, historyVars, devmode>>
  \/ HistoryNext

UpgradeSpec == HistoryInit /\ [][UpgradeNext]_vars

\* an operation of the store suspended at an await: what it will write, and the
\* range it was called with
Suspended(kind, pc, out, from, to) ==
  [kind |-> kind, pc |-> pc, out |-> out, from |-> from, to |-> to]

RemoveAt(seq, i) == SubSeq(seq, 1, i - 1) \o SubSeq(seq, i + 1, Len(seq))

\* loadFromConfig up to the await of writeHistoryV2 inside upsertFromLegacy: the
\* file has been read and the records merged
SyncRead(arr) ==
  LET mapped == MapConfigToRecords(arr, uuidCtr)
      out == UpsertAll(ReadHistoryV2(hFile, TRUE), mapped, hClock)
  IN
  /\ nOps < MaxOps
  /\ nOps' = nOps + 1
  /\ uuidCtr' = uuidCtr + RandomBefore(arr, Len(arr) + 1)
  /\ imported' = imported \cup {<<i, arr[i]>> : i \in 1..Len(arr)}
  /\ callHistory' = ViewOfMapped(mapped)
  /\ inFlight' = Append(inFlight, Suspended("sync", "write", out, NoDay, NoDay))
  /\ UNCHANGED <<hFile, hClock, persisted, lastOp, lostWrite>>

\* writeHistoryV2(out) of upsertFromLegacy goes through
SyncWrite(i) ==
  /\ i \in 1..Len(inFlight)
  /\ inFlight[i].kind = "sync"
  /\ inFlight[i].pc = "write"
  /\ hFile' = WriteHistoryV2(hFile, inFlight[i].out, TRUE)
  /\ persisted' = persisted \cup IdsOf(inFlight[i].out)
  /\ lostWrite' = <<>>
  /\ inFlight' = [inFlight EXCEPT ![i].pc = "reread"]
  /\ UNCHANGED <<hClock, uuidCtr, callHistory, nOps, imported, lastOp>>

\* loadFromConfig reads the file again and shows its projection
SyncReread(i) ==
  /\ i \in 1..Len(inFlight)
  /\ inFlight[i].kind = "sync"
  /\ inFlight[i].pc = "reread"
  /\ callHistory' = Projection(ReadHistoryV2(hFile, TRUE))
  /\ lastOp' = OpResult("sync", NoDay, NoDay, "", TRUE, FALSE, FALSE, FALSE)
  /\ inFlight' = RemoveAt(inFlight, i)
  /\ UNCHANGED <<hFile, hClock, uuidCtr, nOps, imported, persisted, lostWrite>>

\* clearHistory up to the await of writeHistoryV2 inside softDeleteRange: the
\* view is filtered, the file has been read and the records in range marked
ClearRead(from, to) ==
  LET data == ReadHistoryV2(hFile, TRUE)
      out == [k \in 1..Len(data) |-> MarkDeleted(data[k], from, to, hClock, "range-clear")]
  IN
  /\ nOps < MaxOps
  /\ nOps' = nOps + 1
  /\ callHistory' = SelectSeq(callHistory, LAMBDA r : ~InRange(r.callTime, from, to))
  /\ inFlight' = Append(inFlight, Suspended("clear", "write", out, from, to))
  /\ UNCHANGED <<hFile, hClock, uuidCtr, imported, persisted, lastOp, lostWrite>>

\* writeHistoryV2(data) of softDeleteRange goes through and clearHistory
\* confirms
ClearWrite(i) ==
  /\ i \in 1..Len(inFlight)
  /\ inFlight[i].kind = "clear"
  /\ hFile' = WriteHistoryV2(hFile, inFlight[i].out, TRUE)
  /\ persisted' = persisted \cup IdsOf(inFlight[i].out)
  /\ lostWrite' = <<>>
  /\ lastOp' = OpResult("clear", inFlight[i].from, inFlight[i].to, "range-clear",
                        TRUE, FALSE, TRUE, FALSE)
  /\ inFlight' = RemoveAt(inFlight, i)
  /\ UNCHANGED <<hClock, uuidCtr, callHistory, nOps, imported>>

OpIds == 1..MaxOps

\* the operations of the store taken await by await, every file access
\* succeeding
OverlapNext ==
  \/ \E rec \in ForeignRecords :
       FileFromEarlierRun(rec) /\ UNCHANGED <<trackerVars, audioVars, nEvents, historyVars, devmode>>
  \/ \E arr \in RawBatches :
       SyncRead(arr) /\ UNCHANGED <<trackerVars, audioVars, nEvents, historyVars, devmode>>
  \/ \E i \in OpIds : SyncWrite(i) /\ UNCHANGED <<trackerVars, audioVars, nEvents, historyVars, devmode>>
  \/ \E i \in OpIds : SyncReread(i) /\ UNCHANGED <<trackerVars, audioVars, nEvents, historyVars, devmode>>
  \/ \E a, b \in Days :
       ClearRead(a, b) /\ UNCHANGED <<trackerVars, audioVars, nEvents, historyVars, devmode>>
  \/ \E i \in OpIds : ClearWrite(i) /\ UNCHANGED <<trackerVars, audioVars, nEvents, historyVars, devmode>>
  \/ ClockTick /\ UNCHANGED <<trackerVars, audioVars, nEvents, historyVars, devmode>>

OverlapSpec == HistoryInit /\ [][OverlapNext]_vars

\* legacy rows with every kind of code and call time the id is derived from: no
\* code, the word the id uses in place of a missing code, a code with '-'
\* inside, no call time, and legacy ids that read like a call time or carry a '-'
IdCodes == {"", "code", "A", DashedCode}
IdTimes == {NoTime, 2, 3}
IdRowIds == {1, 2, DashedId}

IdRows ==
  [id : IdRowIds, code : IdCodes, room : {"R"}, bed : {"1"},
   timestamp : IdTimes, resetTime : {NoTime}, status : {"active"}]

\* syncs that import one such row each, every file access succeeding
IdNext ==
  \/ \E x \in IdRows :
       LoadFromConfig(<<x>>, TRUE, TRUE, TRUE, TRUE)
         /\ UNCHANGED <<trackerVars, audioVars, nEvents, historyVars, devmode>>
  \/ ClockTick /\ UNCHANGED <<trackerVars, audioVars, nEvents, historyVars, devmode>>

IdSpec == HistoryInit /\ [][IdNext]_vars

\* the password field of Master Data unlocks dev mode
DevEnableCall(stored) ==
  /\ devmode.notified < MaxNotify
  /\ devmode' = Enable(devmode, DevPeriod, stored)

DevDisableCall(removed) ==
  /\ devmode.notified < MaxNotify
  /\ devmode' = Disable(devmode, removed)

\* the window runs the callback of a timeout that is due: () => { disable(); }
DevTimerFires(t, removed) ==
  /\ t \in devmode.timeouts
  /\ t.due <= devmode.now
  /\ devmode.notified < MaxNotify
  /\ devmode' = Disable([devmode EXCEPT !.timeouts = @ \ {t}], removed)

\* Date.now() moves on
DevTick ==
  /\ devmode.now < MaxDevClock
  /\ devmode' = [devmode EXCEPT !.now = @ + 1]

\* the page is loaded again: the window's timeouts are gone, sessionStorage is
\* kept, the module is evaluated anew
DevReload ==
  devmode' = LoadFromSession(FreshModule(devmode.until, devmode.now, devmode.notified))

DevTimeouts == [id : 1..(MaxNotify + 1), due : 1..(MaxDevClock + DevPeriod)]

DevNext ==
  \/ \E stored \in BOOLEAN : DevEnableCall(stored) /\ UNCHANGED appVars
  \/ \E removed \in BOOLEAN : DevDisableCall(removed) /\ UNCHANGED appVars
  \/ \E t \in DevTimeouts, removed \in BOOLEAN : DevTimerFires(t, removed) /\ UNCHANGED appVars
  \/ DevTick /\ UNCHANGED appVars
  \/ DevReload /\ UNCHANGED appVars

DevSpec == Init /\ [][DevNext]_vars

UnlockResults == [ok : BOOLEAN, ctx : {"none", "suspended", "running"}]
ConfigRows == {[kind |-> "none", elapsed |-> 0], [kind |-> "invalid", elapsed |-> 0]}
                \cup {[kind |-> "time", elapsed |-> e] : e \in (0 - 1)..MaxTime}
Elapsed == (0 - 1)..MaxTime
DrainIds == 1..MaxEvents

Next ==
  \/ \E pc \in PayloadCodes, d \in PayloadDisplays, fl \in FileLists, res \in UnlockResults :
       DeriveCode(pc, d) # "" /\ NurseCall(pc, d, fl, res) /\ UNCHANGED <<storeVars, devmode>>
  \/ \E pc \in Codes, el \in Elapsed : NurseCallResponse(pc, el) /\ UNCHANGED <<storeVars, devmode>>
  \/ \E i \in DrainIds, row \in ConfigRows : ConfigFetched(i, row) /\ UNCHANGED <<storeVars, devmode>>
  \/ \E res \in UnlockResults : PointerDown(res) /\ UNCHANGED <<storeVars, devmode>>
  \/ SerialConnected /\ UNCHANGED <<storeVars, devmode>>
  \/ SerialDisconnected /\ UNCHANGED <<storeVars, devmode>>
  \/ FlashTimer /\ UNCHANGED <<storeVars, devmode>>
  \/ SyncConnectedEffect /\ UNCHANGED <<storeVars, devmode>>
  \/ \E i \in DrainIds, ok \in BOOLEAN : FetchDone(i, ok) /\ UNCHANGED <<storeVars, devmode>>
  \/ \E i \in DrainIds : SleepDone(i) /\ UNCHANGED <<storeVars, devmode>>
  \/ \E i \in DrainIds, how \in {"ended", "timeout"} : SourceDone(i, how) /\ UNCHANGED <<storeVars, devmode>>
  \/ \E i \in DrainIds : PauseDone(i) /\ UNCHANGED <<storeVars, devmode>>

Spec == Init /\ [][Next]_vars

\* the room and bed that the trigger payload of a call point carries
PayloadRoom(code) == IF code = "A" THEN "R" ELSE "S"
PayloadBed(code) == IF code = "A" THEN "1" ELSE "2"

\* the History append of an accepted trigger: a new active record
AppendActive(file, code, now) ==
  [exists |-> TRUE,
   calls |-> Append(file.calls,
                    [id |-> CodeChars(code) \o <<"-">> \o TimeChars(now),
                     code |-> code,
                     room |-> PayloadRoom(code),
                     bed |-> PayloadBed(code),
                     startedAt |-> now,
                     endedAt |-> NoTime,
                     status |-> "active",
                     durationSec |-> NoSec,
                     deletedAt |-> NoTime,
                     deletedReason |-> ""])]

\* the nurse-call handler with the History append at the end of its accepted
\* branch
NurseCallRecorded(pcode, display, files, res) ==
  LET code == DeriveCode(pcode, display) IN
  /\ NurseCall(pcode, display, files, res)
  /\ hFile' = IF \/ GateClosed(serialConnectedRef)
                 \/ AlreadyEnclosed(code, closedCodesRef)
                 \/ AlreadyActive(code, activeCodesRef)
              THEN hFile
              ELSE AppendActive(hFile, code, hClock)
  /\ UNCHANGED <<hClock, uuidCtr, callHistory, nOps, imported, persisted, lastOp,
                 lostWrite, inFlight, devmode>>

RecordNext ==
  \/ \E pc \in PayloadCodes, d \in PayloadDisplays, fl \in FileLists, res \in UnlockResults :
       DeriveCode(pc, d) # "" /\ NurseCallRecorded(pc, d, fl, res)
  \/ \E pc \in Codes, el \in Elapsed : NurseCallResponse(pc, el) /\ UNCHANGED <<storeVars, devmode>>
  \/ \E i \in DrainIds, row \in ConfigRows : ConfigFetched(i, row) /\ UNCHANGED <<storeVars, devmode>>
  \/ \E res \in UnlockResults : PointerDown(res) /\ UNCHANGED <<storeVars, devmode>>
  \/ SerialConnected /\ UNCHANGED <<storeVars, devmode>>
  \/ SerialDisconnected /\ UNCHANGED <<storeVars, devmode>>
  \/ FlashTimer /\ UNCHANGED <<storeVars, devmode>>
  \/ SyncConnectedEffect /\ UNCHANGED <<storeVars, devmode>>
  \/ \E i \in DrainIds, ok \in BOOLEAN : FetchDone(i, ok) /\ UNCHANGED <<storeVars, devmode>>
  \/ \E i \in DrainIds : SleepDone(i) /\ UNCHANGED <<storeVars, devmode>>
  \/ \E i \in DrainIds, how \in {"ended", "timeout"} : SourceDone(i, how) /\ UNCHANGED <<storeVars, devmode>>
  \/ \E i \in DrainIds : PauseDone(i) /\ UNCHANGED <<storeVars, devmode>>

RecordSpec == Init /\ [][RecordNext]_vars

\* the file lists of the triggers whose deliveries may fail
DeliveryFileLists == { <<>>, <<NameB>> }

\* the listeners with deliveries that may fail
DeliveryNext ==
  \/ \E pc \in PayloadCodes, d \in PayloadDisplays, fl \in DeliveryFileLists,
         res \in UnlockResults, fail \in Deliveries :
       DeriveCode(pc, d) # "" /\ NurseCallWith(pc, d, fl, res, fail) /\ UNCHANGED <<storeVars, devmode>>
  \/ \E pc \in Codes, el \in Elapsed, fail \in Deliveries :
       NurseCallResponseWith(pc, el, fail) /\ UNCHANGED <<storeVars, devmode>>
  \/ \E i \in DrainIds, row \in ConfigRows : ConfigFetched(i, row) /\ UNCHANGED <<storeVars, devmode>>
  \/ \E res \in UnlockResults : PointerDown(res) /\ UNCHANGED <<storeVars, devmode>>
  \/ SerialConnected /\ UNCHANGED <<storeVars, devmode>>
  \/ SerialDisconnected /\ UNCHANGED <<storeVars, devmode>>
  \/ FlashTimer /\ UNCHANGED <<storeVars, devmode>>
  \/ SyncConnectedEffect /\ UNCHANGED <<storeVars, devmode>>
  \/ \E i \in DrainIds, ok \in BOOLEAN : FetchDone(i, ok) /\ UNCHANGED <<storeVars, devmode>>
  \/ \E i \in DrainIds : SleepDone(i) /\ UNCHANGED <<storeVars, devmode>>
  \/ \E i \in DrainIds, how \in {"ended", "timeout"} : SourceDone(i, how) /\ UNCHANGED <<storeVars, devmode>>
  \/ \E i \in DrainIds : PauseDone(i) /\ UNCHANGED <<storeVars, devmode>>

DeliverySpec == Init /\ [][DeliveryNext]_vars

\* payloads without a code and without a display, next to those of one coded call
EmptyCodePayloads == {"", "A"}

\* the listeners with events whose derived code is empty
EmptyCodeNext ==
  \/ \E pc \in EmptyCodePayloads, fl \in DeliveryFileLists, res \in UnlockResults :
       NurseCall(pc, "", fl, res) /\ UNCHANGED <<storeVars, devmode>>
  \/ \E pc \in EmptyCodePayloads, el \in Elapsed :
       NurseCallResponse(pc, el) /\ UNCHANGED <<storeVars, devmode>>
  \/ \E i \in DrainIds, row \in ConfigRows : ConfigFetched(i, row) /\ UNCHANGED <<storeVars, devmode>>
  \/ \E res \in UnlockResults : PointerDown(res) /\ UNCHANGED <<storeVars, devmode>>
  \/ SerialConnected /\ UNCHANGED <<storeVars, devmode>>
  \/ SerialDisconnected /\ UNCHANGED <<storeVars, devmode>>
  \/ FlashTimer /\ UNCHANGED <<storeVars, devmode>>
  \/ SyncConnectedEffect /\ UNCHANGED <<storeVars, devmode>>
  \/ \E i \in DrainIds, ok \in BOOLEAN : FetchDone(i, ok) /\ UNCHANGED <<storeVars, devmode>>
  \/ \E i \in DrainIds : SleepDone(i) /\ UNCHANGED <<storeVars, devmode>>
  \/ \E i \in DrainIds, how \in {"ended", "timeout"} : SourceDone(i, how) /\ UNCHANGED <<storeVars, devmode>>
  \/ \E i \in DrainIds : PauseDone(i) /\ UNCHANGED <<storeVars, devmode>>

EmptyCodeSpec == Init /\ [][EmptyCodeNext]_vars

\* the most recent row of callHistoryStorage with the code of the response:
\* none, one whose timestamp does not parse, or one written elapsed ticks
\* before the response
DurationRows == ConfigRows \cup [kind : {"found"}, elapsed : Elapsed]

\* the listeners with responses that take their start time from config.json
DurationNext ==
  \/ \E pc \in Codes, fl \in DeliveryFileLists, res \in UnlockResults :
       NurseCall(pc, "", fl, res) /\ UNCHANGED <<storeVars, devmode>>
  \/ \E pc \in Codes, el \in Elapsed : NurseCallResponse(pc, el) /\ UNCHANGED <<storeVars, devmode>>
  \/ \E i \in DrainIds, row \in DurationRows : ConfigFetched(i, row) /\ UNCHANGED <<storeVars, devmode>>
  \/ \E res \in UnlockResults : PointerDown(res) /\ UNCHANGED <<storeVars, devmode>>
  \/ SerialConnected /\ UNCHANGED <<storeVars, devmode>>
  \/ SerialDisconnected /\ UNCHANGED <<storeVars, devmode>>
  \/ FlashTimer /\ UNCHANGED <<storeVars, devmode>>
  \/ SyncConnectedEffect /\ UNCHANGED <<storeVars, devmode>>
  \/ \E i \in DrainIds, ok \in BOOLEAN : FetchDone(i, ok) /\ UNCHANGED <<storeVars, devmode>>
  \/ \E i \in DrainIds : SleepDone(i) /\ UNCHANGED <<storeVars, devmode>>
  \/ \E i \in DrainIds, how \in {"ended", "timeout"} : SourceDone(i, how) /\ UNCHANGED <<storeVars, devmode>>
  \/ \E i \in DrainIds : PauseDone(i) /\ UNCHANGED <<storeVars, devmode>>

DurationSpec == Init /\ [][DurationNext]_vars

\* the timers of playOne and drain: setTimeout callbacks always get to run
TimerStep ==
  \/ \E i \in DrainIds : SleepDone(i) /\ UNCHANGED <<storeVars, devmode>>
  \/ \E i \in DrainIds : SourceDone(i, "timeout") /\ UNCHANGED <<storeVars, devmode>>
  \/ \E i \in DrainIds : PauseDone(i) /\ UNCHANGED <<storeVars, devmode>>

FetchSettles == \E i \in DrainIds, ok \in BOOLEAN : FetchDone(i, ok) /\ UNCHANGED <<storeVars, devmode>>

QueueNext ==
  \/ \E fl \in FileLists, c \in Codes : EnqueueStackCall(fl, c) /\ UNCHANGED <<storeVars, devmode>>
  \/ \E c \in Codes : DropByCodeCall(c) /\ UNCHANGED <<storeVars, devmode>>
  \/ KickCall /\ UNCHANGED <<storeVars, devmode>>
  \/ \E res \in UnlockResults : EnsureUnlockedCall(res) /\ UNCHANGED <<storeVars, devmode>>
  \/ \E i \in DrainIds, ok \in BOOLEAN : FetchDone(i, ok) /\ UNCHANGED <<storeVars, devmode>>
  \/ \E i \in DrainIds : SleepDone(i) /\ UNCHANGED <<storeVars, devmode>>
  \/ \E i \in DrainIds, how \in {"ended", "timeout"} : SourceDone(i, how) /\ UNCHANGED <<storeVars, devmode>>
  \/ \E i \in DrainIds : PauseDone(i) /\ UNCHANGED <<storeVars, devmode>>

QueueSpec == Init /\ [][QueueNext]_vars

\* enqueueStack called for each code of cs in turn, within one task
RECURSIVE EnqueueEach(_, _)
EnqueueEach(q, cs) ==
  IF cs = <<>> THEN q
  ELSE EnqueueEach(EnqueueStack(q, <<NameB>>, Head(cs)), Tail(cs))

Bursts == [1..BurstLen -> AllCodes]

\* a burst of enqueueStack calls on the idle queue
EnqueueBurst(cs) ==
  /\ nEvents = 0
  /\ nEvents' = nEvents + 1
  /\ SetAudio(EnqueueEach(AQ, cs))
  /\ UNCHANGED <<trackerVars, dropped, answeredPlaying, sent, opened, soundful, lastDur>>

\* dropByCode on a queue holding several stacks, stacks pushed with '' included
BurstNext ==
  \/ \E cs \in Bursts : EnqueueBurst(cs) /\ UNCHANGED <<storeVars, devmode>>
  \/ \E c \in Codes : DropByCodeCall(c) /\ UNCHANGED <<storeVars, devmode>>
  \/ KickCall /\ UNCHANGED <<storeVars, devmode>>
  \/ \E i \in DrainIds, ok \in BOOLEAN : FetchDone(i, ok) /\ UNCHANGED <<storeVars, devmode>>
  \/ \E i \in DrainIds : SleepDone(i) /\ UNCHANGED <<storeVars, devmode>>
  \/ \E i \in DrainIds, how \in {"ended", "timeout"} : SourceDone(i, how) /\ UNCHANGED <<storeVars, devmode>>
  \/ \E i \in DrainIds : PauseDone(i) /\ UNCHANGED <<storeVars, devmode>>

BurstSpec == Init /\ [][BurstNext]_vars

\* the event loop runs every due timer; nothing makes a pending fetch settle
QueueFairSpec == QueueSpec /\ WF_vars(TimerStep)

\* the same under the assumption that every fetch and decode settles
QueueSettleSpec == QueueFairSpec /\ WF_vars(FetchSettles)

\* ================================================================ checks
\* an event step that is not a response: a delivered nurse-call event
IsTriggerStep ==
  /\ nEvents' = nEvents + 1
  /\ \A c \in AllCodes : sent'["respRecv"][c] # sent["respRecv"][c] + 1

\* a nurse-call event for c that passed the connectivity gate
HandledTrigger(c) == sent'["trigRecv"][c] = sent["trigRecv"][c] + 1

\* ---------------------------------------------------------------- C1
\* C1: once a call for code c has been opened and closed by a response, a
\* later trigger for c handled while connected is accepted: c is in the active
\* set after the step and one notification and one chat message are counted
\* for it.
C1_FreshTriggerAccepted ==
  [][\A c \in Codes :
       (HandledTrigger(c) /\ c \in opened /\ c \in closedCodesRef
          /\ c \notin activeCodesRef)
         => /\ c \in activeCodesRef'
            /\ sent'["trigNotif"][c] = 1
            /\ sent'["trigChat"][c] = 1]_vars

\* ---------------------------------------------------------------- C2
C2_Counts ==
  \A c \in Codes :
    c \in activeCodesRef
      => /\ sent["trigNotif"][c] = 1
         /\ sent["trigChat"][c] = 1
         /\ sent["stack"][c] = (IF c \in soundful THEN 1 ELSE 0)

C2_Frame ==
  \A c \in Codes :
    (HandledTrigger(c) /\ c \in activeCodesRef)
      => /\ UNCHANGED <<trackerVars, audioVars, enqueued, dropped, answeredPlaying,
                        playLog, opened, soundful, lastDur>>
         /\ \A k \in (DOMAIN sent) \ {"trigRecv"} : sent'[k] = sent[k]

C3_OneCloseOneReply ==
  \A c \in Codes :
    (c \in opened /\ sent["respRecv"][c] >= 1)
      => /\ sent["closed"][c] = 1
         /\ sent["respNotif"][c] = 1
         /\ sent["respChat"][c] = 1
         /\ lastDur[c] >= 0

C3_Witness ==
  \E c \in Codes :
    /\ c \in opened
    /\ sent["respRecv"][c] >= 2
    /\ sent["closed"][c] = 1

\* ---------------------------------------------------------------- C4
\* C4: a nurse-call event handled while serialConnectedRef is false changes no
\* tracker state, no queue state, no standby status, and counts no
\* notification, OS notification or chat message.
C4_GatedTriggerIgnored ==
  [][(IsTriggerStep /\ ~serialConnectedRef)
       => UNCHANGED <<trackerVars, audioVars, historyVars>>]_vars

C4_Witness ==
  /\ nEvents >= 1
  /\ closedCodesRef = {}
  /\ opened = {}
  /\ standbyStatus = "blue"
  /\ ~serialConnectedRef

\* ---------------------------------------------------------------- C5
IsFile(e) == e # PauseMark

LastOfStack(e) == e.idx = Len(enqueued[e.sid].files)

\* the stacks pushed strictly between s and t were removed before starting
SkippedDropped(s, t) == \A u \in (s + 1)..(t - 1) : u \in dropped

C5_Order ==
  \A k \in 1..Len(playLog) :
    LET e == playLog[k]
        j == IF k > 1 /\ ~IsFile(playLog[k - 1]) THEN k - 2 ELSE k - 1
    IN IF ~IsFile(e)
       THEN k > 1 /\ IsFile(playLog[k - 1]) /\ LastOfStack(playLog[k - 1])
       ELSE /\ e.sid \in 1..Len(enqueued)
            /\ e.idx \in 1..Len(enqueued[e.sid].files)
            /\ e.name = enqueued[e.sid].files[e.idx]
            /\ IF j < 1
               THEN e.idx = 1 /\ SkippedDropped(0, e.sid)
               ELSE LET p == playLog[j] IN
                    \/ e.sid = p.sid /\ e.idx = p.idx + 1 /\ j = k - 1
                    \/ /\ e.sid > p.sid
                       /\ e.idx = 1
                       /\ LastOfStack(p)
                       /\ SkippedDropped(p.sid, e.sid)

C5_PauseBetween ==
  (/\ Len(playLog') = Len(playLog) + 1
   /\ playLog # <<>>
   /\ IsFile(playLog[Len(playLog)])
   /\ IsFile(playLog'[Len(playLog')])
   /\ playLog'[Len(playLog')].sid # playLog[Len(playLog)].sid)
    => ~playing

\* C5: files are logged as started in push order: within a stack in file order
\* with nothing in between, a later stack only after the last file of the
\* earlier one, every stack passed over having been dropped; a stack that waited
\* behind a draining one starts only after the pause that follows it.
C5_FifoNoInterleave == []C5_Order /\ [][C5_PauseBetween]_vars

C5_Witness ==
  \E k \in 2..(Len(playLog) - 1) :
    /\ playLog[k] = PauseMark
    /\ playLog[k - 1].idx = 2
    /\ playLog[k + 1].sid > playLog[k - 1].sid

\* ---------------------------------------------------------------- C6
InFlight == {i \in 1..Len(drains) : drains[i].pc \in {"sleep200", "fetch", "sleep50", "source"}}

\* C6: at most one playOne call is in flight, and at most one drain is running.
C6_OnePlayOneAtATime == Cardinality(InFlight) <= 1 /\ Len(drains) <= 1

C6_Witness ==
  /\ Len(drains) = 1
  /\ drains[1].pc = "source"
  /\ drains[1].idx = 2
  /\ stacks # <<>>

\* ---------------------------------------------------------------- C7
\* C7: a stack that was still queued when a response for its code was handled
\* has no file in the playback log.
C7_DroppedNeverPlayed ==
  \A k \in 1..Len(playLog) : playLog[k].sid \notin dropped

C7_Witness == dropped # {} /\ playLog # <<>> /\ ~playing

\* ---------------------------------------------------------------- C8
Started(sid, idx) == \E k \in 1..Len(playLog) : playLog[k].sid = sid /\ playLog[k].idx = idx

\* C8 (as stated): when a response for c is handled while file idx of c's stack
\* is in flight, no later file of that stack is ever started.
C8_RemainingFilesDiscarded ==
  \A a \in answeredPlaying :
    \A k \in 1..Len(playLog) : playLog[k].sid = a.sid => playLog[k].idx <= a.idx

\* C8 (amended): when a response for c is handled while a file of c's stack is
\* in flight, the stack is left as it is: each later file of it has been
\* started or is still held, unchanged, by the running drain.
C8_RemainingFilesKept ==
  \A a \in answeredPlaying :
    \A j \in (a.idx + 1)..Len(enqueued[a.sid].files) :
      \/ Started(a.sid, j)
      \/ \E i \in 1..Len(drains) :
           /\ drains[i].sid = a.sid
           /\ drains[i].idx < j
           /\ drains[i].files = enqueued[a.sid].files

C8_Witness ==
  \E a \in answeredPlaying : Started(a.sid, a.idx + 1)

\* ---------------------------------------------------------------- C9
\* C9: a drain holds a stack taken from the queue only while the audio context
\* is running, so no stack is consumed while playback is not permitted.
C9_NoStackConsumedWhileBlocked == drains # <<>> => ctxState = "running"

\* --------------------------------------------------------------- C10
\* C10: whenever the draining flag is set it is eventually reset: every playOne
\* resolves and every drain terminates.
C10_DrainTerminates == playing ~> ~playing

\* --------------------------------------------------------------- C11
IsQueued(sid) == \E k \in 1..Len(stacks) : stacks[k].sid = sid

AllStarted(sid) == sid <= Len(enqueued) /\ Started(sid, Len(enqueued[sid].files))

\* C11: a stack waiting in the queue is eventually either removed by dropByCode
\* or taken by the drain and played to its last file, with no further call.
C11_QueuedStackPlayed ==
  \A sid \in 1..MaxEvents : IsQueued(sid) ~> (sid \in dropped \/ AllStarted(sid))

\* ------------------------------------------------------ History checks
StoredIds == IdsOf(hFile.calls)

DayOf(t) == t \div DayTicks

Covers(from, to, t) ==
  /\ (from # NoDay => DayOf(t) >= from)
  /\ (to # NoDay => DayOf(t) <= to)

\* a step in which softDeleteRange ran and returned normally
SoftDeleteDone ==
  /\ nOps' = nOps + 1
  /\ lastOp'.kind \in {"softDelete", "clear"}
  /\ lastOp'.ran
  /\ ~lastOp'.threw

\* the stored record c keeps its end time, duration and completed status in the
\* record d of the same id
MovesForward(c, d) ==
  /\ (c.endedAt # NoTime => d.endedAt = c.endedAt /\ d.durationSec = c.durationSec)
  /\ (c.status = "completed" => d.status = "completed")

ForwardOnly ==
  \A k \in 1..Len(hFile.calls) : \A j \in 1..Len(hFile'.calls) :
    hFile'.calls[j].id = hFile.calls[k].id => MovesForward(hFile.calls[k], hFile'.calls[j])

\* the record c covered by the range is kept, marked, and not projected
KeptAndMarked(c) ==
  /\ \E j \in 1..Len(hFile'.calls) :
       LET d == hFile'.calls[j] IN
       /\ d.id = c.id
       /\ d.deletedAt # NoTime
       /\ d.deletedReason # ""
       /\ [d EXCEPT !.deletedAt = c.deletedAt, !.deletedReason = c.deletedReason] = c
  /\ \A i \in 1..Len(Projection(hFile'.calls)) : Projection(hFile'.calls)[i].id # c.id

MarksCovered ==
  \A k \in 1..Len(hFile.calls) :
    Covers(lastOp'.from, lastOp'.to, hFile.calls[k].startedAt) => KeptAndMarked(hFile.calls[k])

\* every stored record is marked if covered and not yet marked, else left alone
ExactFrame ==
  /\ Len(hFile'.calls) = Len(hFile.calls)
  /\ \A k \in 1..Len(hFile.calls) :
       LET c == hFile.calls[k] IN
       hFile'.calls[k] =
         IF Covers(lastOp'.from, lastOp'.to, c.startedAt) /\ c.deletedAt = NoTime
         THEN [c EXCEPT !.deletedAt = hClock, !.deletedReason = lastOp'.reason]
         ELSE c

\* --------------------------------------------------------------- C12
\* C12: importing a legacy row again adds no record: the file never holds more
\* records than there are distinct rows of the config array imported so far.
C12_OneRecordPerLegacyRow == Cardinality(StoredIds) <= Cardinality(imported)

\* the same while every imported row carried its own id
OneRecordPerIdentifiedRow ==
  uuidCtr = 0 => Cardinality(StoredIds) <= Cardinality(imported)

\* --------------------------------------------------------------- C13
\* C13: in every step a stored record with an end time keeps its end time and
\* duration, and a completed record stays completed.
C13_RecordsMoveForward == [][ForwardOnly]_vars

\* the same for the steps whose read returned the stored file
ForwardOnlyWhenRead == [][~lastOp'.lostRead => ForwardOnly]_vars

\* --------------------------------------------------------------- C14
\* C14: every stored record with an end time has a duration equal to the whole
\* seconds from its stored start to its end, and the duration is not negative.
C14_DurationIsEndMinusStart ==
  \A k \in 1..Len(hFile.calls) :
    LET c == hFile.calls[k] IN
    c.endedAt # NoTime
      => /\ c.durationSec = DiffSeconds(c.endedAt, c.startedAt)
         /\ c.durationSec >= 0

\* --------------------------------------------------------------- C15
\* C15: when softDeleteRange has returned, every record that was stored with a
\* start inside the range is still stored, unchanged but for deletedAt and
\* deletedReason, which are set, and is absent from the projection.
C15_SoftDeletedStaysStored == [][SoftDeleteDone => MarksCovered]_vars

\* the same for the calls whose read returned the stored file
SoftDeletedStaysStoredWhenRead ==
  [][(SoftDeleteDone /\ ~lastOp'.lostRead) => MarksCovered]_vars

\* --------------------------------------------------------------- C16
\* C16: every record id that was once written to the file is in the file.
C16_NothingPhysicallyLost == persisted \subseteq StoredIds

\* --------------------------------------------------------------- C17
\* C17: clearHistory never confirms 'History cleared' when the write of its
\* soft delete failed.
C17_FailedWriteNotConfirmed ==
  (lastOp.kind = "clear" /\ lastOp.threw) => ~lastOp.confirmed

\* --------------------------------------------------------------- C18
\* the record e that a failed write would have stored is in the file after the
\* step, with its end time and its deletion mark
Recovered(e) ==
  \E j \in 1..Len(hFile'.calls) :
    LET d == hFile'.calls[j] IN
    /\ d.id = e.id
    /\ (e.endedAt # NoTime => d.endedAt # NoTime)
    /\ (e.deletedAt # NoTime => d.deletedAt # NoTime)

\* C18: the first successful write after a failed one leaves in the file every
\* record, end time and deletion mark that the failed write would have stored.
C18_FailedWriteRetried ==
  [][(lostWrite # <<>> /\ nOps' = nOps + 1 /\ lastOp'.ran /\ ~lastOp'.threw)
       => \A k \in 1..Len(lostWrite) : Recovered(lostWrite[k])]_vars

\* --------------------------------------------------------------- C19
\* C19: when softDeleteRange has returned, the file holds the same records as
\* before, those starting inside the inclusive day range and not yet marked now
\* carrying the call's deletedAt and reason, all others unchanged.
C19_SoftDeleteExactFrame == [][SoftDeleteDone => ExactFrame]_vars

\* the same for the calls whose read returned the stored file
SoftDeleteExactFrameWhenRead ==
  [][(SoftDeleteDone /\ ~lastOp'.lostRead) => ExactFrame]_vars

\* --------------------------------------------------------------- C20
\* the step appended exactly one record, active, for c with its room and bed
OneActiveAdded(c) ==
  /\ Len(hFile'.calls) = Len(hFile.calls) + 1
  /\ SubSeq(hFile'.calls, 1, Len(hFile.calls)) = hFile.calls
  /\ LET d == hFile'.calls[Len(hFile'.calls)] IN
     /\ d.code = c
     /\ d.status = "active"
     /\ d.room = PayloadRoom(c)
     /\ d.bed = PayloadBed(c)

\* a trigger for c delivered while connected and while c has no open call
AcceptedTrigger(c) == HandledTrigger(c) /\ c \notin activeCodesRef

AcceptedFirstTriggerRecorded ==
  [][IsTriggerStep
       => /\ \A c \in Codes :
               (AcceptedTrigger(c) /\ c \notin closedCodesRef) => OneActiveAdded(c)
          /\ (\A c \in Codes : ~AcceptedTrigger(c)) => hFile' = hFile]_vars

\* --------------------------------------------------------------- C21
\* a response event for c that the handler did not skip as already answered
HandledResponse(c) ==
  /\ sent'["respRecv"][c] = sent["respRecv"][c] + 1
  /\ c \notin responseSentRef

\* a trigger for c that the handler took as a new call
TakenTrigger(c) ==
  /\ HandledTrigger(c)
  /\ c \notin activeCodesRef
  /\ c \notin closedCodesRef

\* C21: whatever happens to the banner, the OS notification and the chat
\* message, an accepted trigger leaves its code active with its time recorded
\* and its sounds queued, an accepted response leaves its code closed, not
\* active, without a queued stack and marked as answered, and no transition
\* counts more than one chat message.
C21_DeliveryFailureKeepsTransition ==
  [][\A c \in Codes :
       /\ TakenTrigger(c)
            => /\ c \in activeCodesRef'
               /\ triggerTimesRef'[c] # NoTime
               /\ (c \in soundful' => Len(enqueued') = Len(enqueued) + 1)
       /\ HandledResponse(c)
            => /\ c \in closedCodesRef'
               /\ c \notin activeCodesRef'
               /\ \A k \in 1..Len(stacks') : stacks'[k].code # c
               /\ c \in responseSentRef'
       /\ sent'["trigChat"][c] <= 1
       /\ sent'["respChat"][c] <= 1]_vars

\* --------------------------------------------------------------- C22
\* activation i is suspended in the playOne of the last file of its stack
OnLastFile(i) ==
  /\ drains[i].idx = Len(drains[i].files)
  /\ drains[i].pc \in {"sleep200", "sleep50", "source"}

\* the step resumed activation i
Resumed(i) == Len(drains') < Len(drains) \/ drains'[i] # drains[i]

\* C22: when the last file of a stack completes with a stack pending, the drain
\* enters the pause and takes nothing; with none pending it ends at once without
\* a pause; and a drain goes on to another stack only out of the pause.
C22_PauseOnlyIfPending ==
  [][\A i \in 1..Len(drains) :
       /\ (OnLastFile(i) /\ Resumed(i))
            => IF stacks # <<>>
               THEN /\ drains' = [drains EXCEPT ![i].pc = "pause"]
                    /\ stacks' = stacks
                    /\ playing'
                    /\ playLog' = Append(playLog, PauseMark)
               ELSE /\ ~playing'
                    /\ Len(drains') = Len(drains) - 1
                    /\ playLog' = playLog
       /\ (Len(drains') >= i /\ drains'[i].sid # drains[i].sid)
            => drains[i].pc = "pause"]_vars

\* a pause was made, the next stack was played after it, and the drain ended
C22_Witness ==
  /\ ~playing
  /\ \E k \in 2..(Len(playLog) - 1) : playLog[k] = PauseMark

\* --------------------------------------------------------------- C23
\* the fields that upsertFromLegacy and softDeleteRange set on a stored record
StoreSetFields == {"endedAt", "status", "durationSec", "deletedAt", "deletedReason"}

\* record c is in the file after the step with every other field as it was
FieldsPreserved(c) ==
  \E j \in 1..Len(hFile'.calls) :
    LET d == hFile'.calls[j] IN
    /\ d.id = c.id
    /\ \A f \in (DOMAIN c) \ StoreSetFields : f \in DOMAIN d /\ d[f] = c[f]

AllFieldsPreserved == \A k \in 1..Len(hFile.calls) : FieldsPreserved(hFile.calls[k])

\* C23: every step of the store leaves each stored record in the file with all
\* the fields the store does not set, unknown ones included, unchanged.
C23_UnknownFieldsPreserved == [][AllFieldsPreserved]_vars

\* the same for the operations whose read returned the stored file
UnknownFieldsPreservedWhenRead == [][~lastOp'.lostRead => AllFieldsPreserved]_vars

\* --------------------------------------------------------------- C24
\* a serial-connected event is delivered in this step
IsSerialConnectedStep ==
  /\ standbyStatus' = "blue"
  /\ flashTimers' = flashTimers
  /\ nEvents' = nEvents

\* C24: once the standby status is 'red' and the connectivity flag is false,
\* both stay so in every step that is not a serial-connected event.
C24_RedUntilConnected ==
  [][(standbyStatus = "red" /\ ~serialConnectedRef /\ ~IsSerialConnectedStep)
       => (standbyStatus' = "red" /\ ~serialConnectedRef')]_vars

\* the same while no flash timer of an accepted trigger is pending
RedUntilConnectedWithoutFlash ==
  [][(standbyStatus = "red" /\ ~serialConnectedRef /\ ~IsSerialConnectedStep
        /\ flashTimers = 0)
       => (standbyStatus' = "red" /\ ~serialConnectedRef')]_vars

\* --------------------------------------------------------------- C25
\* a nurse-call-response event for c is delivered in this step
IsResponseStep(c) == sent'["respRecv"][c] = sent["respRecv"][c] + 1

\* C25 (as stated): a response for a code that is not in the active set closes nothing,
\* changes no lifecycle state and counts no response notification and no chat
\* message, at once or later.
C25_ResponseNeedsActiveCall ==
  [][\A c \in Codes :
       (IsResponseStep(c) /\ c \notin activeCodesRef)
         => /\ UNCHANGED <<closedCodesRef, activeCodesRef, triggerTimesRef,
                           responseSentRef, fallbackTasks>>
            /\ \A k \in {"closed", "respNotif", "respOs", "respChat"} :
                 sent'[k][c] = sent[k][c]]_vars

\* C25: a response for a code already answered since its last trigger changes
\* no lifecycle state and counts nothing but its receipt; every other response,
\* whether or not its code is in the active set, closes the code, marks it
\* answered and counts one notification and one chat message, sent at once or
\* left to the config fallback.
C25_ResponseUnlessAnswered ==
  [][\A c \in Codes :
       IsResponseStep(c)
         => IF c \in responseSentRef
            THEN /\ UNCHANGED <<closedCodesRef, activeCodesRef, triggerTimesRef,
                                responseSentRef, fallbackTasks>>
                 /\ \A k \in {"closed", "respNotif", "respOs", "respChat"} :
                      sent'[k][c] = sent[k][c]
            ELSE /\ c \in closedCodesRef'
                 /\ c \notin activeCodesRef'
                 /\ c \in responseSentRef'
                 /\ sent'["closed"][c] = sent["closed"][c] + 1
                 /\ sent'["respNotif"][c] = sent["respNotif"][c] + 1
                 /\ \/ /\ sent'["respChat"][c] = sent["respChat"][c] + 1
                       /\ fallbackTasks' = fallbackTasks
                    \/ /\ sent'["respChat"][c] = sent["respChat"][c]
                       /\ fallbackTasks' = Append(fallbackTasks, c)]_vars

\* a code never triggered was closed by a response, and a second response for
\* it was received and counted nothing
C25_Witness ==
  \E c \in Codes :
    /\ c \notin opened
    /\ c \in closedCodesRef
    /\ sent["respRecv"][c] = 2
    /\ sent["respNotif"][c] = 1

\* --------------------------------------------------------------- C26
\* a call of the queue's API that pushed no stack: dropByCode, or an
\* enqueueStack without a usable name
IsNoPushCall == nEvents' = nEvents + 1 /\ enqueued' = enqueued

\* C26: a dropByCode call leaves the draining flag, the running drain with its
\* file in flight and its remaining files, the playback log, the cache and the
\* audio context as they are; and a file in flight ends only in a step of its
\* own playOne (onended, a timer), never in a call of the queue's API.
C26_DropLeavesPlayback ==
  [][/\ IsNoPushCall => UNCHANGED <<playing, drains, playLog, cache, ctxState>>
     /\ \A i \in InFlight :
          (Len(drains') < i \/ drains'[i] # drains[i]) => nEvents' = nEvents]_vars

\* dropByCode was called for the code of the file in flight, which is still
\* playing
C26_Witness ==
  \E a \in answeredPlaying : \E i \in 1..Len(drains) :
    /\ drains[i].sid = a.sid
    /\ drains[i].idx = a.idx
    /\ drains[i].pc = "source"
    /\ playing

\* --------------------------------------------------------------- C27
\* the stacks a dropByCode call of this step found queued for its code
Gone == dropped' \ dropped

\* C27: a dropByCode call leaves in the queue exactly the stacks that were not
\* queued for its code, in their order and with their files, and none of the
\* stacks left has the code of a removed one.
C27_DropRemovesExactlyTheCode ==
  [][IsNoPushCall
       => /\ stacks' = SelectSeq(stacks, LAMBDA s : s.sid \notin Gone)
          /\ \A k, j \in 1..Len(stacks) :
               (stacks[k].sid \in Gone /\ stacks[j].sid \notin Gone)
                 => stacks[j].code # stacks[k].code]_vars

\* a stack was removed from between others: an earlier and a later one are
\* still queued, one of them pushed with the empty code
C27_Witness ==
  \E d \in dropped : \E k, j \in 1..Len(stacks) :
    /\ stacks[k].sid < d
    /\ d < stacks[j].sid
    /\ (stacks[k].code = "" \/ stacks[j].code = "")

\* --------------------------------------------------------------- C28
\* C28: while a drain is running, a call of enqueueStack or dropByCode starts no
\* drain and takes no stack; a kick made while draining or with an empty queue
\* changes nothing; and a drain loop starts only when none is running.
C28_OneDrainLoop ==
  [][/\ (playing /\ nEvents' = nEvents + 1)
          => (playing' /\ drains' = drains /\ playLog' = playLog)
     /\ (KickCall /\ (playing \/ stacks = <<>>)) => UNCHANGED vars
     /\ Len(drains') > Len(drains) => (~playing /\ drains = <<>>)]_vars

\* two stacks were pushed while the drain of the first one was running, and
\* that drain, now in its pause, is still the only one
C28_Witness ==
  /\ playing
  /\ Len(drains) = 1
  /\ drains[1].pc = "pause"
  /\ Len(stacks) = 2

\* --------------------------------------------------------------- C29
\* the name s has a character that is not white space
HasInk(s) == \E i \in 1..Len(s) : s[i] # " "

\* t is s without its leading and trailing white space
IsTrimOf(t, s) ==
  \E a \in 0..Len(s) :
    /\ a + Len(t) <= Len(s)
    /\ t = SubSeq(s, a + 1, a + Len(t))
    /\ \A i \in (1..a) \cup ((a + Len(t) + 1)..Len(s)) : s[i] = " "
    /\ t # <<>> => (t[1] # " " /\ t[Len(t)] # " ")

\* the positions of the given list that hold a name worth playing
InkAt(fl) == { k \in 1..Len(fl) : HasInk(fl[k]) }

\* fs holds the trimmed non-empty names of fl, each once, in the given order
HoldsNames(fs, fl) ==
  /\ Len(fs) = Cardinality(InkAt(fl))
  /\ \A k \in InkAt(fl) :
       IsTrimOf(fs[Cardinality({ j \in InkAt(fl) : j <= k })], fl[k])

\* the stack with these files and this code is the one stack added by the step:
\* appended to the pending list while a drain runs, handed to a new drain
\* otherwise
OneStackAdded(fl, c) ==
  /\ Len(enqueued') = Len(enqueued) + 1
  /\ IF playing
     THEN /\ stacks' = Append(stacks, stacks'[Len(stacks')])
          /\ stacks'[Len(stacks')].code = c
          /\ HoldsNames(stacks'[Len(stacks')].files, fl)
          /\ drains' = drains
          /\ playing'
     ELSE /\ stacks' = stacks
          /\ drains' = Append(drains, drains'[Len(drains')])
          /\ drains'[Len(drains')].code = c
          /\ drains'[Len(drains')].idx = 1
          /\ HoldsNames(drains'[Len(drains')].files, fl)
          /\ playing'

\* C29: a call of enqueueStack whose list has a name that is not empty or white
\* space adds exactly one stack, holding the trimmed non-empty names in the
\* given order; a call whose list has none adds no stack and starts no drain.
C29_EnqueueAppendsCleaned ==
  [][\A fl \in FileLists, c \in Codes :
       EnqueueStackCall(fl, c) =>
         IF InkAt(fl) # {} THEN OneStackAdded(fl, c)
         ELSE UNCHANGED <<audioVars, enqueued, playLog>>]_vars

C29_Witness ==
  /\ playing
  /\ stacks # <<>>
  /\ stacks[Len(stacks)].files = << <<"a">>, <<"b">> >>
  /\ Len(enqueued) < nEvents

\* --------------------------------------------------------------- C30
\* C30: whenever the draining flag is false between two handlers, the list of
\* pending stacks is empty.
C30_NoStackStranded == ~playing => stacks = <<>>

\* the drain has ended after a second stack was pushed behind a running one and
\* a call of dropByCode or kick came in between
C30_Witness ==
  /\ ~playing
  /\ drains = <<>>
  /\ Len(enqueued) = 2
  /\ nEvents = 3
  /\ \E k \in 1..Len(playLog) : playLog[k].sid = 2

\* --------------------------------------------------------------- C31
\* the codes with a trigger timestamp recorded
Timed == { c \in AllCodes : triggerTimesRef[c] # NoTime }

\* C31: for non-empty codes, no code is both active and closed, and a code is
\* active exactly when a trigger timestamp is recorded for it.
C31_ActiveIffTimed ==
  /\ activeCodesRef \cap closedCodesRef = {}
  /\ \A c \in Codes : c \in activeCodesRef <=> c \in Timed

\* one call answered and closed while another is still active
C31_Witness ==
  /\ \E c \in Codes : c \in closedCodesRef /\ c \in responseSentRef /\ c \notin Timed
  /\ \E c \in Codes : c \in activeCodesRef /\ c \in Timed

\* --------------------------------------------------------------- C32
\* a response event without a code is delivered in this step
IsCodelessResponse == sent'["respRecv"][""] = sent["respRecv"][""] + 1

\* the step pushes one stack, with the empty code
PushesCodelessStack ==
  /\ Len(enqueued') = Len(enqueued) + 1
  /\ enqueued'[Len(enqueued')].code = ""

\* the handled trigger without a code is announced anew and opens no call
CodelessTriggerAnnounced ==
  /\ sent'["trigNotif"][""] = sent["trigNotif"][""] + 1
  /\ sent'["trigChat"][""] = sent["trigChat"][""] + 1
  /\ UNCHANGED <<activeCodesRef, closedCodesRef, triggerTimesRef>>

\* the response without a code is announced anew, its chat message waiting for
\* the fetch of the config file, and closes nothing
CodelessResponseAnnounced ==
  /\ sent'["respNotif"][""] = sent["respNotif"][""] + 1
  /\ fallbackTasks' = Append(fallbackTasks, "")
  /\ UNCHANGED <<activeCodesRef, closedCodesRef, responseSentRef, triggerTimesRef,
                 audioVars, dropped, playLog>>

\* no set of the tracker ever holds the empty code
NoCodelessEntry ==
  /\ "" \notin activeCodesRef \cup closedCodesRef \cup responseSentRef
  /\ triggerTimesRef[""] = NoTime

\* C32 (as stated): every trigger without a code handled while connected pushes
\* its own sound stack and counts its own notification and chat message and
\* never enters the active set; every response without a code is handled anew
\* and closes nothing.
C32_CodelessBypassesDedup ==
  /\ []NoCodelessEntry
  /\ [][/\ HandledTrigger("") => (PushesCodelessStack /\ CodelessTriggerAnnounced)
        /\ IsCodelessResponse => CodelessResponseAnnounced]_vars

\* C32 (amended): the same, the stack being pushed exactly when the trigger
\* carries a sound name that is not blank.
C32_CodelessBypassesDedupWithSound ==
  /\ []NoCodelessEntry
  /\ [][/\ HandledTrigger("")
             => /\ CodelessTriggerAnnounced
                /\ IF "" \in soundful' THEN PushesCodelessStack
                   ELSE enqueued' = enqueued
        /\ IsCodelessResponse => CodelessResponseAnnounced]_vars

\* two triggers without a code have each pushed a stack and a response without
\* a code has been handled after them: none was dropped
C32_Witness ==
  /\ Len(enqueued) = 2
  /\ \A k \in 1..2 : enqueued[k].code = ""
  /\ sent["respNotif"][""] = 1
  /\ dropped = {}
  /\ fallbackTasks # <<>>

\* --------------------------------------------------------------- C33
\* the record c of the file is still stored and marked after the step
StaysMarked(c) ==
  \E j \in 1..Len(hFile'.calls) :
    /\ hFile'.calls[j].id = c.id
    /\ hFile'.calls[j].deletedAt # NoTime

\* C33: once a completed softDeleteRange has set deletedAt on a record of the
\* file, every later state of the file shows that record with deletedAt set,
\* whatever operations of the store overlap.
C33_MarksSurviveOverlap ==
  [][\A k \in 1..Len(hFile.calls) :
       hFile.calls[k].deletedAt # NoTime => StaysMarked(hFile.calls[k])]_vars

\* the same for steps of an operation that read the file after the mark was
\* written
MarksSurviveLaterReaders ==
  [][\A k \in 1..Len(hFile.calls) :
       (/\ hFile.calls[k].deletedAt # NoTime
        /\ \A i \in 1..Len(inFlight) :
             inFlight[i].pc = "write" =>
               \E j \in 1..Len(inFlight[i].out) :
                 /\ inFlight[i].out[j].id = hFile.calls[k].id
                 /\ inFlight[i].out[j].deletedAt # NoTime)
         => StaysMarked(hFile.calls[k])]_vars

\* --------------------------------------------------------------- C34
\* a step in which loadFromConfig called upsertFromLegacy
ImportDone ==
  /\ nOps' = nOps + 1
  /\ lastOp'.kind = "sync"
  /\ lastOp'.ran

\* the soft-deleted record c is stored with the same marks after the step and is
\* not projected
StillDeleted(c) ==
  /\ \E j \in 1..Len(hFile'.calls) :
       /\ hFile'.calls[j].id = c.id
       /\ hFile'.calls[j].deletedAt = c.deletedAt
       /\ hFile'.calls[j].deletedReason = c.deletedReason
  /\ \A i \in 1..Len(Projection(hFile'.calls)) : Projection(hFile'.calls)[i].id # c.id

NoneResurrected ==
  \A k \in 1..Len(hFile.calls) :
    hFile.calls[k].deletedAt # NoTime => StillDeleted(hFile.calls[k])

\* C34: an import leaves deletedAt and deletedReason of every soft-deleted
\* record as they were, and the record out of the projection of the file.
C34_ImportKeepsDeleted == [][ImportDone => NoneResurrected]_vars

\* the same for the imports whose read returned the stored file
ImportKeepsDeletedWhenRead == [][(ImportDone /\ ~lastOp'.lostRead) => NoneResurrected]_vars

\* an import that read the file has brought the legacy row of a soft-deleted
\* record again, with an end time
ReimportedDeleted ==
  /\ lastOp.kind = "sync"
  /\ lastOp.ran
  /\ ~lastOp.threw
  /\ ~lastOp.lostRead
  /\ \E k \in 1..Len(hFile.calls) : \E x \in imported :
       /\ hFile.calls[k].deletedAt # NoTime
       /\ hFile.calls[k].endedAt # NoTime
       /\ x[2].code = hFile.calls[k].code
       /\ x[2].timestamp = hFile.calls[k].startedAt
       /\ x[2].resetTime # NoTime

\* --------------------------------------------------------------- C35
\* dur is the span of ticks in seconds, to the nearest second and not below 0
IsSeconds(dur, ticks) ==
  LET ms == ticks * MsPerTick
  IN IF ms < 0 THEN dur = 0
     ELSE dur >= 0 /\ dur * 1000 - ms \in (0 - 499)..500

\* a response for pc is handled el ticks after its trigger time in memory: the
\* chat message carries that span and the trigger time is removed
FromMemory(pc, el) ==
  (/\ NurseCallResponse(pc, el)
   /\ pc \notin responseSentRef
   /\ triggerTimesRef[pc] # NoTime)
    => /\ IsSeconds(lastDur'[pc], el - triggerTimesRef[pc])
       /\ triggerTimesRef'[pc] = NoTime
       /\ sent'["respChat"][pc] = sent["respChat"][pc] + 1

\* the chat message of a response without a trigger time in memory carries the
\* span since the start of the most recent row of its code, or no duration
\* when there is no such row
FromConfig(i, row) ==
  ConfigFetched(i, row)
    => /\ sent'["respChat"][fallbackTasks[i]] = sent["respChat"][fallbackTasks[i]] + 1
       /\ IF row.kind = "none" THEN lastDur'[fallbackTasks[i]] = NoDur
          ELSE IsSeconds(lastDur'[fallbackTasks[i]], row.elapsed)

\* C35: the duration in the response chat message is the time between trigger
\* and response in seconds, never negative; it is taken from the trigger time
\* in memory, which is then removed, and otherwise from the start time of the
\* most recent persisted record of the code.
C35_DurationIsElapsedSeconds ==
  [][/\ \A pc \in Codes, el \in Elapsed : FromMemory(pc, el)
     /\ \A i \in DrainIds, row \in DurationRows : FromConfig(i, row)]_vars

\* the same for persisted records whose start time parses as a date
DurationIsElapsedSecondsOfValidStart ==
  [][/\ \A pc \in Codes, el \in Elapsed : FromMemory(pc, el)
     /\ \A i \in DrainIds, row \in DurationRows :
          row.kind # "invalid" => FromConfig(i, row)]_vars

\* one chat message carried a second counted from memory, another one counted
\* from the config file
DurationsFromBothSources ==
  /\ lastDur["A"] = 1
  /\ lastDur["B"] = 1
  /\ "A" \in opened
  /\ "B" \notin opened
  /\ fallbackTasks = <<>>

\* --------------------------------------------------------------- C36
\* the calls imported so far, told apart by code and call time
ImportedCalls == { <<x[2].code, x[2].timestamp>> : x \in imported }

\* C36: legacy records that differ in code or in call time are stored as
\* distinct History records: the file holds at least as many records as calls
\* were imported.
C36_DistinctCallsKeptApart == Cardinality(StoredIds) >= Cardinality(ImportedCalls)

\* the same while every imported row carries a call time and none carries the
\* word the id uses for a missing code
CodedTimedCallsKeptApart ==
  (\A x \in imported : x[2].timestamp # NoTime /\ x[2].code # "code")
    => C36_DistinctCallsKeptApart

\* a row without a code and a row with a code containing '-' are stored apart
CodelessAndDashedStored ==
  /\ Cardinality(StoredIds) = 2
  /\ \E x, y \in imported :
       /\ x[2].code = ""
       /\ y[2].code = DashedCode
       /\ x[2].timestamp = y[2].timestamp
       /\ x[2].timestamp # NoTime

\* --------------------------------------------------------------- C37
\* dev mode is active exactly when one expiry timeout is pending, and that
\* timeout is the one the module holds in timer
ActiveIffOneTimer ==
  /\ Cardinality(devmode.timeouts) <= 1
  /\ devmode.active <=> Cardinality(devmode.timeouts) = 1
  /\ devmode.active <=> devmode.timer # NoTimer
  /\ \A t \in devmode.timeouts : t.id = devmode.timer

\* the step leaves dev mode active with one timeout, due a whole period from now
PeriodRestarted ==
  /\ devmode'.active
  /\ \E t \in devmode'.timeouts :
       /\ devmode'.timeouts = {t}
       /\ t.due = devmode.now + DevPeriod
       /\ t \notin devmode.timeouts
  /\ devmode'.notified = devmode.notified + 1

\* the step leaves dev mode inactive with no timeout, subscribers notified
SwitchedOff ==
  /\ ~devmode'.active
  /\ devmode'.timeouts = {}
  /\ devmode'.timer = NoTimer
  /\ devmode'.notified = devmode.notified + 1

\* C37: dev mode is active exactly when one expiry timer is pending; enable
\* restarts the period with a single timer; disable and the expiry of the timer
\* leave dev mode inactive with no timer pending and notify the subscribers.
C37_DevModeHasOneTimer ==
  /\ []ActiveIffOneTimer
  /\ [][/\ (\E stored \in BOOLEAN : DevEnableCall(stored)) => PeriodRestarted
        /\ (\E removed \in BOOLEAN : DevDisableCall(removed)) => SwitchedOff
        /\ (\E t \in DevTimeouts, removed \in BOOLEAN : DevTimerFires(t, removed))
             => SwitchedOff]_vars

\* dev mode was enabled again while active, and its second timer is running
C37_Witness ==
  /\ devmode.active
  /\ devmode.timer = 2
  /\ devmode.notified = 2
  /\ devmode.now > DevClockStart

====
